---- MODULE Spec2Model ----
(***************************************************************************)
(* CivicConnect report lifecycle: the report entity with its timeline, the *)
(* role checks of the report, field-worker and admin controllers, and the  *)
(* notifications they create.  Every handler is an async function; it is   *)
(* modelled as a request that runs in a slot and advances at its awaits    *)
(* (findById, save, Notification.create).  With one slot the requests run  *)
(* one after the other; with two slots they interleave at the awaits.      *)
(*                                                                         *)
(* A document loaded with findById is an in-memory copy.  save() sends     *)
(* only what the handler changed: pushed array elements as $push and       *)
(* assigned paths whose value differs from the loaded one as $set.         *)
(***************************************************************************)
EXTENDS Integers, Sequences, FiniteSets, Bags, TLC

VARIABLES users, reports, notifications, req, resp, env, now

vars == <<users, reports, notifications, req, resp, env, now>>

----------------------------------------------------------------------------
(* Bounds of the model *)

MaxTimeline == 3

MaxNotifications == 3

MaxFeedbackTimeline == 5

MaxNewUsers == 2

MaxBulkTimeline == 2

\* the clock takes the values 0 .. MaxClock
MaxClock == 3

\* length of the timelines of the reports that the queries read
MaxQueryTimeline == 2

----------------------------------------------------------------------------
(* Values *)

Null == "null"

\* the target status of a request whose body has no status field
Undefined == "undefined"

\* a status string outside the enum
Bogus == "bogus"

StatusEnum == {"submitted", "in_review", "assigned", "in_progress", "resolved", "closed"}

validRoles == {"user", "employee", "admin"}

\* the accounts of the seed
UserIds == {"u1", "u2", "e1", "e2", "a1"}

\* the ids that User.create gives to new accounts
NewUserIds == {"n1", "n2", "n3"}

\* the value of ADMIN_CREATION_TOKEN when it is configured
Secret == "secret"

ReportIds == {"r1", "r2"}

Slots == {1, 2}

NoFeedback == [rating |-> 0]

\* response class of an error that is not an ApiError (passed to next(error))
ValidationErrorCode == 400

InternalErrorCode == 500

----------------------------------------------------------------------------
(* State after the seed: the accounts exist, no report, no notification *)

InitUsers ==
  [u \in UserIds |->
     [role |-> CASE u \in {"u1", "u2"} -> "user"
                 [] u \in {"e1", "e2"} -> "employee"
                 [] OTHER -> "admin",
      isActive |-> TRUE,
      email |-> u]]

\* a response that carries no count and no ids of reports
NoData == [count |-> 0, reportIds |-> {}]

IdleReq == [op |-> "none", actor |-> Null, rid |-> Null, arg |-> Null, tasks |-> <<>>]

NoResp == [op |-> "none", actor |-> Null, rid |-> Null, arg |-> Null, code |-> 0,
           data |-> NoData]

Init ==
  /\ users = InitUsers
  /\ reports = <<>>
  /\ notifications = EmptyBag
  /\ req = [s \in Slots |-> IdleReq]
  /\ resp = NoResp
  /\ env = [ADMIN_CREATION_TOKEN |-> Secret]
  /\ now = 0

----------------------------------------------------------------------------
(* Mongoose documents *)

\* schema defaults applied when a stored document is hydrated: status
\* defaults to 'submitted' when the stored document has none
findById(r) ==
  [status      |-> IF reports[r].status = Undefined THEN "submitted" ELSE reports[r].status,
   assignedTo  |-> reports[r].assignedTo,
   submittedBy |-> reports[r].submittedBy,
   feedback    |-> reports[r].feedback]

\* a freshly loaded document: nothing modified, nothing pushed; dflt holds
\* the paths whose value is the schema default and not a stored value
Loaded(r, pc) ==
  [pc |-> pc, doc |-> findById(r), mod |-> {}, pushT |-> <<>>, pushI |-> 0,
   dflt |-> IF reports[r].status = Undefined THEN {"status"} ELSE {}]

\* assignment to a path: the path is marked modified when the value differs
\* from the document's, or when the document's value is only the default
SetPath(t, path, val) ==
  [t EXCEPT !.doc = [@ EXCEPT ![path] = val],
            !.mod = IF t.doc[path] = val /\ path \notin t.dflt THEN @ ELSE @ \cup {path},
            !.dflt = @ \ {path}]

\* report.images.push(...uploadedImages)
PushImages(t, n) == [t EXCEPT !.pushI = @ + n]

\* reportSchema.methods.addTimelineEvent, up to the call of save()
addTimelineEvent(t, status, comment, userId) ==
  [SetPath([t EXCEPT !.pushT = Append(@, [status |-> status, comment |-> comment,
                                          updatedBy |-> userId, timestamp |-> now])],
           "status", status)
     EXCEPT !.pc = "save"]

\* schema validation run by save(): enum paths reject a value outside the
\* enum; an undefined value of a path that is not required passes
ValidStatus(v) == v \in StatusEnum \cup {Undefined}

Validates(t) ==
  /\ ValidStatus(t.doc.status)
  /\ \A i \in 1..Len(t.pushT) : ValidStatus(t.pushT[i].status)

\* timestamps: true: save() sets updatedAt to the time at which it is called,
\* which is the time of the entry that addTimelineEvent has just pushed
savedAt(t) == IF t.pushT = <<>> THEN now ELSE t.pushT[Len(t.pushT)].timestamp

\* mutant: the timeline is written with $set of the new elements instead of $push
ApplyDelta_SetTimeline(stored, t) ==
  [status      |-> IF "status" \in t.mod THEN t.doc.status ELSE stored.status,
   assignedTo  |-> IF "assignedTo" \in t.mod THEN t.doc.assignedTo ELSE stored.assignedTo,
   submittedBy |-> stored.submittedBy,
   feedback    |-> IF "feedback" \in t.mod THEN t.doc.feedback ELSE stored.feedback,
   timeline    |-> IF t.pushT = <<>> THEN stored.timeline ELSE t.pushT,
   images      |-> stored.images + t.pushI,
   category    |-> stored.category,
   priority    |-> stored.priority,
   createdAt   |-> stored.createdAt,
   updatedAt   |-> savedAt(t)]

\* the update save() sends to the store: $push of the new array elements,
\* $set (or $unset) of the modified paths
ApplyDelta(stored, t) ==
  [status      |-> IF "status" \in t.mod THEN t.doc.status ELSE stored.status,
   assignedTo  |-> IF "assignedTo" \in t.mod THEN t.doc.assignedTo ELSE stored.assignedTo,
   submittedBy |-> stored.submittedBy,
   feedback    |-> IF "feedback" \in t.mod THEN t.doc.feedback ELSE stored.feedback,
   timeline    |-> stored.timeline \o t.pushT,
   images      |-> stored.images + t.pushI,
   category    |-> stored.category,
   priority    |-> stored.priority,
   createdAt   |-> stored.createdAt,
   updatedAt   |-> savedAt(t)]

Saved(t) == [t EXCEPT !.mod = {}, !.pushT = <<>>, !.pushI = 0]

----------------------------------------------------------------------------
(* Outcome of a handler up to its first write: an error response, or the   *)
(* documents it goes on to save                                            *)

Reply(code) == [code |-> code, tasks |-> <<>>]

Run(r, t) == [code |-> 0, tasks |-> (r :> t)]

\* authMiddleware: the account of the token must be active
authMiddleware(a) == users[a].isActive

restrictTo(roles, a) == users[a].role \in roles

\* mutant: the user check joins its two conditions with && instead of ||
updateReportStatus_UserAnd(a, r, status) ==
  IF r \notin DOMAIN reports THEN Reply(404)
  ELSE LET report == Loaded(r, "save") IN
    IF users[a].role = "user" /\ (status # "closed" /\ report.doc.status # "resolved")
      THEN Reply(403)
    ELSE IF users[a].role = "employee"
            /\ report.doc.assignedTo # Null /\ report.doc.assignedTo # a
      THEN Reply(403)
    ELSE IF users[a].role = "employee" /\ status \notin {"in_progress", "resolved"}
      THEN Reply(400)
    ELSE Run(r, addTimelineEvent(report, status, Undefined, a))

\* mutant: the list of statuses an employee may set also holds 'closed'
updateReportStatus_EmployeeClose(a, r, status) ==
  IF r \notin DOMAIN reports THEN Reply(404)
  ELSE LET report == Loaded(r, "save") IN
    IF users[a].role = "user" /\ (status # "closed" \/ report.doc.status # "resolved")
      THEN Reply(403)
    ELSE IF users[a].role = "employee"
            /\ report.doc.assignedTo # Null /\ report.doc.assignedTo # a
      THEN Reply(403)
    ELSE IF users[a].role = "employee" /\ status \notin {"in_progress", "resolved", "closed"}
      THEN Reply(400)
    ELSE Run(r, addTimelineEvent(report, status, Undefined, a))

\* mutant: a closed report accepts no further status
updateReportStatus_ClosedIsFinal(a, r, status) ==
  IF r \notin DOMAIN reports THEN Reply(404)
  ELSE LET report == Loaded(r, "save") IN
    IF report.doc.status = "closed" THEN Reply(400)
    ELSE IF users[a].role = "user" /\ (status # "closed" \/ report.doc.status # "resolved")
      THEN Reply(403)
    ELSE IF users[a].role = "employee"
            /\ report.doc.assignedTo # Null /\ report.doc.assignedTo # a
      THEN Reply(403)
    ELSE IF users[a].role = "employee" /\ status \notin {"in_progress", "resolved"}
      THEN Reply(400)
    ELSE Run(r, addTimelineEvent(report, status, Undefined, a))

\* exports.updateReportStatus; the body has no comment
updateReportStatus(a, r, status) ==
  IF r \notin DOMAIN reports THEN Reply(404)
  ELSE LET report == Loaded(r, "save") IN
    IF users[a].role = "user" /\ (status # "closed" \/ report.doc.status # "resolved")
      THEN Reply(403)
    ELSE IF users[a].role = "employee"
            /\ report.doc.assignedTo # Null /\ report.doc.assignedTo # a
      THEN Reply(403)
    ELSE IF users[a].role = "employee" /\ status \notin {"in_progress", "resolved"}
      THEN Reply(400)
    ELSE Run(r, addTimelineEvent(report, status, Undefined, a))

\* mutant: assignReport does not look at the role of the caller
assignReport_AnyCaller(a, r, employeeId) ==
  IF employeeId \notin DOMAIN users \/ users[employeeId].role # "employee" THEN Reply(400)
  ELSE IF r \notin DOMAIN reports THEN Reply(404)
  ELSE Run(r, addTimelineEvent(
                SetPath(SetPath(Loaded(r, "save"), "assignedTo", employeeId),
                        "status", "assigned"),
                "assigned", "Report assigned to employee", a))

\* exports.assignReport (the route is behind restrictTo('admin'))
assignReport(a, r, employeeId) ==
  IF ~restrictTo({"admin"}, a) THEN Reply(403)
  ELSE IF employeeId \notin DOMAIN users \/ users[employeeId].role # "employee" THEN Reply(400)
  ELSE IF r \notin DOMAIN reports THEN Reply(404)
  ELSE Run(r, addTimelineEvent(
                SetPath(SetPath(Loaded(r, "save"), "assignedTo", employeeId),
                        "status", "assigned"),
                "assigned", "Report assigned to employee", a))

\* exports.addFeedback
addFeedback(a, r, rating) ==
  IF r \notin DOMAIN reports THEN Reply(404)
  ELSE LET report == Loaded(r, "save") IN
    IF report.doc.submittedBy # a THEN Reply(403)
    ELSE IF report.doc.status # "resolved" THEN Reply(400)
    ELSE Run(r, addTimelineEvent(
                  [report EXCEPT !.doc.feedback = [rating |-> rating],
                                 !.mod = @ \cup {"feedback"}],
                  "closed", "Feedback provided and report closed", a))

\* exports.uploadReportImages, up to report.save()
uploadReportImages(a, r, files) ==
  IF r \notin DOMAIN reports THEN Reply(404)
  ELSE LET report == Loaded(r, "saveImages") IN
    IF users[a].role = "user" /\ report.doc.submittedBy # a THEN Reply(403)
    ELSE IF users[a].role = "employee"
            /\ report.doc.assignedTo # Null /\ report.doc.assignedTo # a
      THEN Reply(403)
    ELSE IF files = 0 THEN Reply(400)
    ELSE Run(r, PushImages(report, files))

\* mutant: the assignment check only rejects an unassigned report
patchReportStatus_AnyAssignee(a, r, status) ==
  IF ~restrictTo({"employee"}, a) THEN Reply(403)
  ELSE IF status \notin {"in_progress", "resolved"} THEN Reply(400)
  ELSE IF r \notin DOMAIN reports THEN Reply(404)
  ELSE LET report == Loaded(r, "save") IN
    IF report.doc.assignedTo = Null THEN Reply(403)
    ELSE Run(r, addTimelineEvent(report, status, "Status updated", a))

\* PATCH /api/fieldworker/reports/:id/status (behind restrictTo('employee'))
patchReportStatus(a, r, status) ==
  IF ~restrictTo({"employee"}, a) THEN Reply(403)
  ELSE IF status \notin {"in_progress", "resolved"} THEN Reply(400)
  ELSE IF r \notin DOMAIN reports THEN Reply(404)
  ELSE LET report == Loaded(r, "save") IN
    IF report.doc.assignedTo = Null \/ report.doc.assignedTo # a THEN Reply(403)
    ELSE Run(r, addTimelineEvent(report, status, "Status updated", a))

\* exports.uploadProgressImages, up to the upload of the files; r = Null is
\* a request without reportId, which touches no report
uploadProgressImages(a, r, files) ==
  IF users[a].role # "employee" THEN Reply(403)
  ELSE IF files = 0 THEN Reply(400)
  ELSE IF r = Null THEN Reply(201)
  ELSE IF r \notin DOMAIN reports THEN Reply(404)
  ELSE LET report == Loaded(r, "reload") IN
    IF report.doc.assignedTo # Null /\ report.doc.assignedTo # a THEN Reply(403)
    ELSE Run(r, PushImages(report, files))

\* exports.uploadCompletionImages, up to the save() of addTimelineEvent
uploadCompletionImages(a, r, files, markAsResolved) ==
  IF users[a].role # "employee" THEN Reply(403)
  ELSE IF files = 0 THEN Reply(400)
  ELSE IF r = Null THEN Reply(400)
  ELSE IF r \notin DOMAIN reports THEN Reply(404)
  ELSE LET report == Loaded(r, "save") IN
    IF report.doc.assignedTo # Null /\ report.doc.assignedTo # a THEN Reply(403)
    ELSE IF markAsResolved = "true"
      THEN Run(r, addTimelineEvent(
                    SetPath(PushImages(report, files), "status", "resolved"),
                    "resolved", "Work completed", a))
      ELSE Run(r, addTimelineEvent(PushImages(report, files), "in_progress",
                                   "Completion images uploaded", a))

----------------------------------------------------------------------------
(* Admin controller: bulk operations and user management.  Its routes are  *)
(* behind authMiddleware and restrictTo('admin').                          *)

\* an id that is no well-formed ObjectId
Malformed == "malformed"

\* mongoose.Types.ObjectId.isValid
isValid(id) == id # Malformed

RunAll(tasks) == [code |-> 0, tasks |-> tasks]

\* comment || default: an absent comment and the empty string are falsy
OrDefault(comment, default) == IF comment \in {Undefined, ""} THEN default ELSE comment

\* mutant: the check that Report.find returned a report is missing
bulkUpdateReportStatus_NoNotFound(a, reportIds, status, comment) ==
  IF ~restrictTo({"admin"}, a) THEN Reply(403)
  ELSE IF reportIds = {} THEN Reply(400)
  ELSE IF status \notin StatusEnum THEN Reply(400)
  ELSE IF \E id \in reportIds : ~isValid(id) THEN Reply(400)
  ELSE LET found == reportIds \cap DOMAIN reports IN
    RunAll([r \in found |->
              addTimelineEvent(Loaded(r, "save"), status,
                               OrDefault(comment, "Bulk status update"), a)])

\* exports.bulkUpdateReportStatus; reportIds = {} stands for an empty array
\* and for a value that is no array
bulkUpdateReportStatus(a, reportIds, status, comment) ==
  IF ~restrictTo({"admin"}, a) THEN Reply(403)
  ELSE IF reportIds = {} THEN Reply(400)
  ELSE IF status \notin StatusEnum THEN Reply(400)
  ELSE IF \E id \in reportIds : ~isValid(id) THEN Reply(400)
  ELSE LET found == reportIds \cap DOMAIN reports IN
    IF found = {} THEN Reply(404)
    ELSE RunAll([r \in found |->
                   addTimelineEvent(Loaded(r, "save"), status,
                                    OrDefault(comment, "Bulk status update"), a)])

\* mutant: the check of the assignee's role is missing
bulkAssignReports_AnyRole(a, reportIds, assigneeId) ==
  IF ~restrictTo({"admin"}, a) THEN Reply(403)
  ELSE IF reportIds = {} THEN Reply(400)
  ELSE IF ~isValid(assigneeId) THEN Reply(400)
  ELSE IF \E id \in reportIds : ~isValid(id) THEN Reply(400)
  ELSE IF assigneeId \notin DOMAIN users THEN Reply(404)
  ELSE LET found == reportIds \cap DOMAIN reports IN
    IF found = {} THEN Reply(404)
    ELSE RunAll([r \in found |->
                   addTimelineEvent(SetPath(Loaded(r, "save"), "assignedTo", assigneeId),
                                    "assigned", "Assigned to", a)])

\* exports.bulkAssignReports
bulkAssignReports(a, reportIds, assigneeId) ==
  IF ~restrictTo({"admin"}, a) THEN Reply(403)
  ELSE IF reportIds = {} THEN Reply(400)
  ELSE IF ~isValid(assigneeId) THEN Reply(400)
  ELSE IF \E id \in reportIds : ~isValid(id) THEN Reply(400)
  ELSE IF assigneeId \notin DOMAIN users THEN Reply(404)
  ELSE IF users[assigneeId].role # "employee" THEN Reply(400)
  ELSE LET found == reportIds \cap DOMAIN reports IN
    IF found = {} THEN Reply(404)
    ELSE RunAll([r \in found |->
                   addTimelineEvent(SetPath(Loaded(r, "save"), "assignedTo", assigneeId),
                                    "assigned", "Assigned to", a)])

\* mutant: the malformed ids are dropped and the others are closed
bulkDeleteReports_SkipMalformed(a, reportIds) ==
  IF ~restrictTo({"admin"}, a) THEN Reply(403)
  ELSE IF reportIds = {} THEN Reply(400)
  ELSE LET found == {id \in reportIds : isValid(id)} \cap DOMAIN reports IN
    IF found = {} THEN Reply(404)
    ELSE RunAll([r \in found |->
                   addTimelineEvent(Loaded(r, "save"), "closed",
                                    "Report closed by administrator", a)])

\* exports.bulkDeleteReports
bulkDeleteReports(a, reportIds) ==
  IF ~restrictTo({"admin"}, a) THEN Reply(403)
  ELSE IF reportIds = {} THEN Reply(400)
  ELSE IF \E id \in reportIds : ~isValid(id) THEN Reply(400)
  ELSE LET found == reportIds \cap DOMAIN reports IN
    IF found = {} THEN Reply(404)
    ELSE RunAll([r \in found |->
                   addTimelineEvent(Loaded(r, "save"), "closed",
                                    "Report closed by administrator", a)])

\* a loaded user document with the assignment of one path
UserTask(u, path, val) ==
  [pc |-> "saveUser",
   doc |-> [users[u] EXCEPT ![path] = val],
   mod |-> IF users[u][path] = val THEN {} ELSE {path},
   pushT |-> <<>>, pushI |-> 0, dflt |-> {}]

\* mutant: the check that an admin does not deactivate their own account is missing
toggleUserStatus_NoSelfCheck(a, userId, isActive) ==
  IF ~restrictTo({"admin"}, a) THEN Reply(403)
  ELSE IF isActive \notin {"true", "false"} THEN Reply(400)
  ELSE IF userId \notin DOMAIN users THEN Reply(404)
  ELSE Run(userId, UserTask(userId, "isActive", isActive = "true"))

\* exports.toggleUserStatus, up to user.save(); isActive is "true" or "false"
\* for the two booleans, any other value is no boolean
toggleUserStatus(a, userId, isActive) ==
  IF ~restrictTo({"admin"}, a) THEN Reply(403)
  ELSE IF isActive \notin {"true", "false"} THEN Reply(400)
  ELSE IF userId \notin DOMAIN users THEN Reply(404)
  ELSE IF userId = a /\ isActive = "false" THEN Reply(400)
  ELSE Run(userId, UserTask(userId, "isActive", isActive = "true"))

\* mutant: the check that an admin does not change their own role is missing
updateUserRole_NoSelfCheck(a, userId, role) ==
  IF ~restrictTo({"admin"}, a) THEN Reply(403)
  ELSE IF role \notin validRoles THEN Reply(400)
  ELSE IF userId \notin DOMAIN users THEN Reply(404)
  ELSE Run(userId, UserTask(userId, "role", role))

\* exports.updateUserRole, up to user.save()
updateUserRole(a, userId, role) ==
  IF ~restrictTo({"admin"}, a) THEN Reply(403)
  ELSE IF role \notin validRoles THEN Reply(400)
  ELSE IF userId \notin DOMAIN users THEN Reply(404)
  ELSE IF userId = a THEN Reply(400)
  ELSE Run(userId, UserTask(userId, "role", role))

----------------------------------------------------------------------------
(* Accounts: registration and the creation of admins.  Both routes are     *)
(* public; the admin route is behind restrictToTrustedSources.             *)

\* the document that User.create is called with
NewUser(email, role) ==
  [pc |-> "createUser",
   doc |-> [role |-> role, isActive |-> TRUE, email |-> email],
   mod |-> {}, pushT |-> <<>>, pushI |-> 0, dflt |-> {}]

\* User.findOne({ email })
findOne(email) == {u \in DOMAIN users : users[u].email = email}

\* mutant: the requested role is stored as it was sent
register_AnyRole(email, role) ==
  IF findOne(email) # {} THEN Reply(400)
  ELSE Run("new", NewUser(email, role))

\* mutant: register creates the user without looking for the email
register_NoFindOne(email, role) ==
  Run("new", NewUser(email, IF role = "employee" THEN "employee" ELSE "user"))

\* exports.register, up to User.create
register(email, role) ==
  IF findOne(email) # {} THEN Reply(400)
  ELSE Run("new", NewUser(email, IF role = "employee" THEN "employee" ELSE "user"))

\* the addresses that restrictToTrustedSources takes for localhost
Localhost == {"127.0.0.1", "::1", "::ffff:127.0.0.1"}

\* restrictToTrustedSources: header is the value of the admin-creation-token
\* header, Undefined when the request has none; the token is Undefined when
\* ADMIN_CREATION_TOKEN is not configured
restrictToTrustedSources(ip, header) ==
  LET isLocalhost   == ip \in Localhost
      hasAdminToken == header = env.ADMIN_CREATION_TOKEN
  IN isLocalhost \/ hasAdminToken

\* exports.createAdmin behind restrictToTrustedSources, up to User.create;
\* body is "valid" or "missingField"
createAdmin(ip, header, email, body) ==
  IF ~restrictToTrustedSources(ip, header) THEN Reply(403)
  ELSE IF body = "missingField" THEN Reply(400)
  ELSE IF findOne(email) # {} THEN Reply(400)
  ELSE Run("new", NewUser(email, "admin"))

----------------------------------------------------------------------------
(* What a handler does after a save() has completed *)

\* the date of a path that holds null
NoDate == -1

\* new Notification(data): isRead and readAt take the defaults of the schema
NewNotification(recipient, type, rid) ==
  [recipient |-> recipient, type |-> type, rid |-> rid, isRead |-> FALSE, readAt |-> NoDate]

NoNotification == NewNotification(Null, "none", Null)

\* mutant: bulkDeleteReports creates no notification
NotificationOf_NoneOnBulkDelete(q, r, t) ==
  CASE q.op = "updateReportStatus" ->
         NewNotification(t.doc.submittedBy, "report_status", r)
    [] q.op = "assignReport" ->
         NewNotification(q.arg, "assignment", r)
    [] q.op = "addFeedback" /\ t.doc.assignedTo # Null ->
         NewNotification(t.doc.assignedTo, "feedback", r)
    [] q.op = "patchReportStatus" /\ q.arg = "resolved" ->
         NewNotification(t.doc.submittedBy, "report_status", r)
    [] q.op = "uploadCompletionImages" /\ q.arg = "true" ->
         NewNotification(t.doc.submittedBy, "report_status", r)
    [] q.op = "bulkUpdateReportStatus" /\ q.arg = "resolved" ->
         NewNotification(t.doc.submittedBy, "report_status", r)
    [] q.op = "bulkAssignReports" ->
         NewNotification(q.arg, "assignment", r)
    [] OTHER -> NoNotification

\* the notification a request creates for report r once its save is done
NotificationOf(q, r, t) ==
  CASE q.op = "updateReportStatus" ->
         NewNotification(t.doc.submittedBy, "report_status", r)
    [] q.op = "assignReport" ->
         NewNotification(q.arg, "assignment", r)
    [] q.op = "addFeedback" /\ t.doc.assignedTo # Null ->
         NewNotification(t.doc.assignedTo, "feedback", r)
    [] q.op = "patchReportStatus" /\ q.arg = "resolved" ->
         NewNotification(t.doc.submittedBy, "report_status", r)
    [] q.op = "uploadCompletionImages" /\ q.arg = "true" ->
         NewNotification(t.doc.submittedBy, "report_status", r)
    [] q.op = "bulkUpdateReportStatus" /\ q.arg = "resolved" ->
         NewNotification(t.doc.submittedBy, "report_status", r)
    [] q.op = "bulkAssignReports" ->
         NewNotification(q.arg, "assignment", r)
    [] q.op = "bulkDeleteReports" ->
         NewNotification(t.doc.submittedBy, "report_status", r)
    [] OTHER -> NoNotification

\* updateReportStatus builds its message with status.replace('_', ' '),
\* which throws a TypeError when the body had no status
NotificationThrows(q) == q.op = "updateReportStatus" /\ q.arg = Undefined

\* mutant: no handler creates a notification after its save()
AfterSave_NeverNotify(q, r, t) ==
  IF t.pc = "saveImages"
    THEN IF q.op = "uploadReportImages"
           THEN addTimelineEvent(t, t.doc.status, "image(s) uploaded", q.actor)
           ELSE addTimelineEvent(t, "in_progress", "Progress images uploaded", q.actor)
  ELSE [t EXCEPT !.pc = "done"]

\* the handler's next await after a completed save()
AfterSave(q, r, t) ==
  IF t.pc = "saveImages"
    THEN IF q.op = "uploadReportImages"
           THEN addTimelineEvent(t, t.doc.status, "image(s) uploaded", q.actor)
           ELSE addTimelineEvent(t, "in_progress", "Progress images uploaded", q.actor)
  ELSE IF NotificationThrows(q) \/ NotificationOf(q, r, t) # NoNotification
    THEN [t EXCEPT !.pc = "notify"]
  ELSE [t EXCEPT !.pc = "done"]

\* status code of the success response
SuccessCode(op) ==
  IF op \in {"createReport", "uploadProgressImages", "uploadCompletionImages",
            "register", "createAdmin"}
    THEN 201 ELSE 200

----------------------------------------------------------------------------
(* Requests *)

Idle(s) == req[s].op = "none"

BulkOps == {"bulkUpdateReportStatus", "bulkAssignReports", "bulkDeleteReports"}

\* data of the success response of a bulk operation: reports.length and
\* reports.map(r => r._id) of the reports that Report.find returned
ResponseData(q, code) ==
  IF q.op \in BulkOps /\ code = 200
    THEN [count |-> Cardinality(DOMAIN q.tasks), reportIds |-> DOMAIN q.tasks]
    ELSE NoData

\* the response of a request that is in flight in slot s
Respond(s, code) ==
  /\ resp' = [op |-> req[s].op, actor |-> req[s].actor, rid |-> req[s].rid,
              arg |-> req[s].arg, code |-> code, data |-> ResponseData(req[s], code)]
  /\ req' = [req EXCEPT ![s] = IdleReq]

\* task r of slot s moves on to t; the response is sent once every task of
\* the request is done
Continue(s, r, t) ==
  LET others == DOMAIN req[s].tasks \ {r} IN
    IF t.pc = "done" /\ \A o \in others : req[s].tasks[o].pc \in {"done", "failed"}
      THEN IF \E o \in others : req[s].tasks[o].pc = "failed"
             THEN /\ req' = [req EXCEPT ![s] = IdleReq]
                  /\ UNCHANGED resp
             ELSE Respond(s, SuccessCode(req[s].op))
      ELSE /\ req' = [req EXCEPT ![s].tasks[r] = t]
           /\ UNCHANGED resp

\* a failure that undoes the timeline entry stored before it
Fail_Rollback(s, r) ==
  /\ ~Idle(s)
  /\ r \in DOMAIN req[s].tasks
  /\ req[s].tasks[r].pc \in {"saveImages", "save", "notify"}
  /\ resp' = [op |-> req[s].op, actor |-> req[s].actor, rid |-> req[s].rid,
              arg |-> req[s].arg, code |-> InternalErrorCode, data |-> NoData]
  /\ req' = [req EXCEPT ![s] = IdleReq]
  /\ reports' = IF req[s].tasks[r].pc = "notify"
                  THEN [reports EXCEPT ![r].timeline = SubSeq(@, 1, Len(@) - 1)]
                  ELSE reports
  /\ UNCHANGED <<users, notifications, env, now>>

\* an await of the task of report r rejects (the store fails): the error
\* reaches the catch of the handler, which answers if no answer was sent yet.
\* In a bulk operation Promise.all rejects with the first failure and the
\* tasks of the other reports keep running.
Fail(s, r) ==
  /\ ~Idle(s)
  /\ r \in DOMAIN req[s].tasks
  /\ req[s].tasks[r].pc \in {"saveImages", "save", "notify"}
  /\ LET others == DOMAIN req[s].tasks \ {r} IN
       /\ resp' = IF \E o \in others : req[s].tasks[o].pc = "failed"
                    THEN resp
                    ELSE [op |-> req[s].op, actor |-> req[s].actor, rid |-> req[s].rid,
                          arg |-> req[s].arg,
                          code |-> IF req[s].op \in BulkOps THEN 500 ELSE InternalErrorCode,
                          data |-> NoData]
       /\ req' = IF \A o \in others : req[s].tasks[o].pc \in {"done", "failed"}
                   THEN [req EXCEPT ![s] = IdleReq]
                   ELSE [req EXCEPT ![s].tasks[r].pc = "failed"]
  /\ UNCHANGED <<users, reports, notifications, env, now>>

\* a request arrives: authMiddleware, then the handler up to its first write
Request(s, op, a, r, arg, out) ==
  /\ Idle(s)
  /\ LET code == IF ~authMiddleware(a) THEN 403 ELSE out.code IN
       IF code # 0
         THEN /\ resp' = [op |-> op, actor |-> a, rid |-> r, arg |-> arg, code |-> code,
                          data |-> NoData]
              /\ UNCHANGED req
         ELSE /\ req' = [req EXCEPT ![s] = [op |-> op, actor |-> a, rid |-> r,
                                            arg |-> arg, tasks |-> out.tasks]]
              /\ UNCHANGED resp
  /\ UNCHANGED <<users, reports, notifications, env, now>>

\* a request to a route that is not behind authMiddleware
PublicRequest(s, op, ip, rid, arg, out) ==
  /\ Idle(s)
  /\ IF out.code # 0
       THEN /\ resp' = [op |-> op, actor |-> ip, rid |-> rid, arg |-> arg,
                        code |-> out.code, data |-> NoData]
            /\ UNCHANGED req
       ELSE /\ req' = [req EXCEPT ![s] = [op |-> op, actor |-> ip, rid |-> rid,
                                          arg |-> arg, tasks |-> out.tasks]]
            /\ UNCHANGED resp
  /\ UNCHANGED <<users, reports, notifications, env, now>>

Register(s, ip, email, role) ==
  PublicRequest(s, "register", ip, email, role, register(email, role))

CreateAdmin(s, ip, header, email, body) ==
  PublicRequest(s, "createAdmin", ip, email, header, createAdmin(ip, header, email, body))

\* the schema of the users: email is unique, the store rejects the insert of
\* an email that a user holds
duplicateKey(email) == findOne(email) # {}

\* User.create completes: the insert is rejected when another account took
\* the email after the findOne of this request
CreateUser(s) ==
  /\ ~Idle(s)
  /\ "new" \in DOMAIN req[s].tasks
  /\ req[s].tasks["new"].pc = "createUser"
  /\ NewUserIds \ DOMAIN users # {}
  /\ LET t  == req[s].tasks["new"]
         id == CHOOSE n \in NewUserIds \ DOMAIN users : TRUE
     IN   IF duplicateKey(t.doc.email)
            THEN /\ Respond(s, InternalErrorCode)
                 /\ UNCHANGED users
            ELSE /\ users' = (id :> t.doc) @@ users
                 /\ Continue(s, "new", [t EXCEPT !.pc = "done"])
  /\ UNCHANGED <<reports, notifications, env, now>>

UpdateReportStatus(s, a, r, status) ==
  Request(s, "updateReportStatus", a, r, status, updateReportStatus(a, r, status))

AssignReport(s, a, r, employeeId) ==
  Request(s, "assignReport", a, r, employeeId, assignReport(a, r, employeeId))

AddFeedback(s, a, r, rating) ==
  Request(s, "addFeedback", a, r, rating, addFeedback(a, r, rating))

UploadReportImages(s, a, r, files) ==
  Request(s, "uploadReportImages", a, r, files, uploadReportImages(a, r, files))

PatchReportStatus(s, a, r, status) ==
  Request(s, "patchReportStatus", a, r, status, patchReportStatus(a, r, status))

UploadProgressImages(s, a, r, files) ==
  Request(s, "uploadProgressImages", a, r, files, uploadProgressImages(a, r, files))

UploadCompletionImages(s, a, r, files, markAsResolved) ==
  Request(s, "uploadCompletionImages", a, r, markAsResolved,
          uploadCompletionImages(a, r, files, markAsResolved))

BulkUpdateReportStatus(s, a, reportIds, status, comment) ==
  Request(s, "bulkUpdateReportStatus", a, reportIds, status,
          bulkUpdateReportStatus(a, reportIds, status, comment))

BulkAssignReports(s, a, reportIds, assigneeId) ==
  Request(s, "bulkAssignReports", a, reportIds, assigneeId,
          bulkAssignReports(a, reportIds, assigneeId))

BulkDeleteReports(s, a, reportIds) ==
  Request(s, "bulkDeleteReports", a, reportIds, Null, bulkDeleteReports(a, reportIds))

ToggleUserStatus(s, a, userId, isActive) ==
  Request(s, "toggleUserStatus", a, userId, isActive, toggleUserStatus(a, userId, isActive))

UpdateUserRole(s, a, userId, role) ==
  Request(s, "updateUserRole", a, userId, role, updateUserRole(a, userId, role))

\* user.save() completes: $set of the modified path
SaveUser(s, u) ==
  /\ ~Idle(s)
  /\ u \in DOMAIN req[s].tasks
  /\ req[s].tasks[u].pc = "saveUser"
  /\ LET t == req[s].tasks[u] IN
       /\ users' = [users EXCEPT ![u] = [p \in DOMAIN @ |->
                                           IF p \in t.mod THEN t.doc[p] ELSE @[p]]]
       /\ Continue(s, u, [Saved(t) EXCEPT !.pc =
            IF req[s].op = "updateUserRole" \/ ~t.doc.isActive THEN "notifyUser"
                                                               ELSE "done"])
  /\ UNCHANGED <<reports, notifications, env, now>>

\* Notification.create of toggleUserStatus and updateUserRole completes
NotifyUser(s, u) ==
  /\ ~Idle(s)
  /\ u \in DOMAIN req[s].tasks
  /\ req[s].tasks[u].pc = "notifyUser"
  /\ notifications' = notifications (+)
       SetToBag({NewNotification(u, "system", Null)})
  /\ Continue(s, u, [req[s].tasks[u] EXCEPT !.pc = "done"])
  /\ UNCHANGED <<users, reports, env, now>>

\* mutant: the check of the location is missing
createReport_NoLocationCheck(a, r, body) ==
  IF body = "missingField" THEN Reply(400)
  ELSE IF body = "badCategory" THEN Reply(400)
  ELSE Run(r, [pc |-> "notifyAdmins",
               doc |-> [status |-> "submitted", assignedTo |-> Null,
                        submittedBy |-> a, feedback |-> NoFeedback],
               mod |-> {},
               pushT |-> <<[status |-> "submitted", comment |-> "Report submitted",
                             updatedBy |-> a, timestamp |-> now]>>,
               pushI |-> 0, dflt |-> {}])

\* the category and the priority of the body of createReport: the body
\* "urgent" names a road issue of priority critical, the other valid bodies
\* name the category other and no priority (priority || 'medium')
categoryOf(body) == IF body = "urgent" THEN "road_issue" ELSE "other"

priorityOf(body) == IF body = "urgent" THEN "critical" ELSE "medium"

\* exports.createReport: the checks of the body and Report.create
createReport(a, r, body) ==
  IF body \in {"missingField", "badLocation"} THEN Reply(400)
  ELSE IF body = "badCategory" THEN Reply(400)
  ELSE Run(r, [pc |-> "notifyAdmins",
               doc |-> [status |-> "submitted", assignedTo |-> Null,
                        submittedBy |-> a, feedback |-> NoFeedback],
               mod |-> {},
               pushT |-> <<[status |-> "submitted", comment |-> "Report submitted",
                             updatedBy |-> a, timestamp |-> now]>>,
               pushI |-> 0, dflt |-> {}])

CreateReport(s, a, r, body) ==
  /\ Idle(s)
  /\ r \notin DOMAIN reports
  /\ LET out == createReport(a, r, body)
         code == IF ~authMiddleware(a) THEN 403 ELSE out.code IN
       IF code # 0
         THEN /\ resp' = [op |-> "createReport", actor |-> a, rid |-> r,
                          arg |-> body, code |-> code, data |-> NoData]
              /\ UNCHANGED <<req, reports>>
         ELSE /\ reports' = (r :> [status |-> out.tasks[r].doc.status,
                                   assignedTo |-> out.tasks[r].doc.assignedTo,
                                   submittedBy |-> out.tasks[r].doc.submittedBy,
                                   feedback |-> out.tasks[r].doc.feedback,
                                   timeline |-> out.tasks[r].pushT,
                                   images |-> 0,
                                   category |-> categoryOf(body),
                                   priority |-> priorityOf(body),
                                   createdAt |-> now,
                                   updatedAt |-> now]) @@ reports
              /\ req' = [req EXCEPT ![s] = [op |-> "createReport", actor |-> a,
                                            rid |-> r, arg |-> body,
                                            tasks |-> (r :> Saved(out.tasks[r]))]]
              /\ UNCHANGED resp
  /\ UNCHANGED <<users, notifications, env, now>>

\* createReport after Report.create: one notification for each admin
NotifyAdmins(s, r) ==
  /\ ~Idle(s)
  /\ r \in DOMAIN req[s].tasks
  /\ req[s].tasks[r].pc = "notifyAdmins"
  /\ notifications' = notifications (+)
       SetToBag({NewNotification(u, "report_status", r) :
                   u \in {x \in DOMAIN users : users[x].role = "admin"}})
  /\ Continue(s, r, [req[s].tasks[r] EXCEPT !.pc = "done"])
  /\ UNCHANGED <<users, reports, env, now>>

\* uploadProgressImages after the upload: the second Report.findById and
\* the push of the images
Reload(s, r) ==
  /\ ~Idle(s)
  /\ r \in DOMAIN req[s].tasks
  /\ req[s].tasks[r].pc = "reload"
  /\ Continue(s, r, PushImages(Loaded(r, "saveImages"), req[s].tasks[r].pushI))
  /\ UNCHANGED <<users, reports, notifications, env, now>>

\* a save() completes: validation, then the update of the stored document
Save(s, r) ==
  /\ ~Idle(s)
  /\ r \in DOMAIN req[s].tasks
  /\ req[s].tasks[r].pc \in {"saveImages", "save"}
  /\ LET t == req[s].tasks[r] IN
       IF ~Validates(t)
         THEN /\ Respond(s, ValidationErrorCode)
              /\ UNCHANGED reports
         ELSE /\ reports' = [reports EXCEPT ![r] = ApplyDelta(@, t)]
              /\ Continue(s, r, AfterSave(req[s], r, Saved(t)))
  /\ UNCHANGED <<users, notifications, env, now>>

\* Notification.createNotification / Notification.create completes
Notify(s, r) ==
  /\ ~Idle(s)
  /\ r \in DOMAIN req[s].tasks
  /\ req[s].tasks[r].pc = "notify"
  /\ IF NotificationThrows(req[s])
       THEN /\ Respond(s, InternalErrorCode)
            /\ UNCHANGED notifications
       ELSE /\ notifications' = notifications (+)
                 SetToBag({NotificationOf(req[s], r, req[s].tasks[r])})
            /\ Continue(s, r, [req[s].tasks[r] EXCEPT !.pc = "done"])
  /\ UNCHANGED <<users, reports, env, now>>

\* the clock of the server advances: a later new Date() is a later date
Tick ==
  /\ now < MaxClock
  /\ now' = now + 1
  /\ UNCHANGED <<users, reports, notifications, req, resp, env>>

\* notificationSchema.methods.markAsRead, up to the call of save(): isRead
\* is modified when it was false, readAt is assigned a new Date
markAsRead(n) ==
  [pc |-> "saveNotification", orig |-> n,
   doc |-> [n EXCEPT !.isRead = TRUE, !.readAt = now],
   mod |-> (IF n.isRead THEN {} ELSE {"isRead"}) \cup (IF n.readAt = now THEN {} ELSE {"readAt"})]

\* PATCH /api/notifications/:id/read: Notification.findOne({ _id, recipient })
\* then markAsRead
patchNotificationRead(a, n) ==
  IF ~BagIn(n, notifications) \/ n.recipient # a THEN Reply(404)
  ELSE Run("notification", markAsRead(n))

PatchNotificationRead(s, a, n) ==
  Request(s, "patchNotificationRead", a, Null, n, patchNotificationRead(a, n))

\* the stored notification that a loaded notification is a copy of
SameNotification(m, n) == m.recipient = n.recipient /\ m.type = n.type /\ m.rid = n.rid

\* the save() of markAsRead completes: $set of the modified paths
SaveNotification(s) ==
  /\ ~Idle(s)
  /\ "notification" \in DOMAIN req[s].tasks
  /\ req[s].tasks["notification"].pc = "saveNotification"
  /\ LET t == req[s].tasks["notification"] IN
       \E m \in BagToSet(notifications) :
         /\ IF BagIn(t.orig, notifications) THEN m = t.orig ELSE SameNotification(m, t.orig)
         /\ notifications' = (notifications (-) SetToBag({m})) (+)
              SetToBag({[p \in DOMAIN m |-> IF p \in t.mod THEN t.doc[p] ELSE m[p]]})
         /\ Continue(s, "notification", [t EXCEPT !.pc = "done"])
  /\ UNCHANGED <<users, reports, env, now>>

----------------------------------------------------------------------------
(* Queries.  A query string parameter is a string; a number is written as  *)
(* the sequence of its characters.  A handler issues store queries, each   *)
(* answered from the store as it is at that moment.                        *)

\* the JavaScript number that is not a number
NaN == -1

\* the parameter is missing: String(undefined)
Absent == <<"undefined">>

DigitChars == {"0", "1", "2", "3", "4", "5", "6", "7", "8", "9"}

DigitVal(c) ==
  CASE c = "0" -> 0 [] c = "1" -> 1 [] c = "2" -> 2 [] c = "3" -> 3 [] c = "4" -> 4
    [] c = "5" -> 5 [] c = "6" -> 6 [] c = "7" -> 7 [] c = "8" -> 8 [] c = "9" -> 9

RECURSIVE ParseDigits(_, _)
ParseDigits(str, acc) ==
  IF str = <<>> \/ Head(str) \notin DigitChars THEN acc
  ELSE ParseDigits(Tail(str), 10 * acc + DigitVal(Head(str)))

\* parseInt: the value of the leading digits, NaN when there is none
parseInt(str) ==
  IF str = <<>> \/ Head(str) \notin DigitChars THEN NaN ELSE ParseDigits(str, 0)

\* x || d for a number x: NaN and 0 are falsy
OrElse(x, d) == IF x = NaN \/ x = 0 THEN d ELSE x

\* Math.ceil(a / b) for a >= 0, b >= 1
Ceil(a, b) == (a + b - 1) \div b

\* a string of the query is truthy unless it is missing or empty
Truthy(v) == v \notin {Undefined, ""}

\* mutant: an employee sees every unassigned report
roleFilter_AnyUnassigned(a, r) ==
  CASE users[a].role = "user" -> reports[r].submittedBy = a
    [] users[a].role = "employee" ->
         \/ reports[r].assignedTo = a
         \/ reports[r].assignedTo = Null
    [] OTHER -> TRUE

\* getReports: the filter by user role
roleFilter(a, r) ==
  CASE users[a].role = "user" -> reports[r].submittedBy = a
    [] users[a].role = "employee" ->
         \/ reports[r].assignedTo = a
         \/ reports[r].assignedTo = Null /\ reports[r].status \in {"submitted", "in_review"}
    [] OTHER -> TRUE

\* getReports: the query built from req.query and req.user
getReportsQuery(a, q, r) ==
  /\ Truthy(q.status) => reports[r].status = q.status
  /\ Truthy(q.category) => reports[r].category = q.category
  /\ Truthy(q.priority) => reports[r].priority = q.priority
  /\ roleFilter(a, r)

\* sort({ createdAt: -1 }): the orders in which the store can return the
\* reports of S, newest first, reports of the same date in any order
NewestFirst(S) ==
  {f \in [1..Cardinality(S) -> S] :
     /\ \A i, j \in 1..Cardinality(S) : i # j => f[i] # f[j]
     /\ \A i \in 1..(Cardinality(S) - 1) : reports[f[i]].createdAt >= reports[f[i + 1]].createdAt}

\* skip(skip).limit(limit)
SkipLimit(seq, skip, limit) ==
  SubSeq(seq, skip + 1, IF skip + limit < Len(seq) THEN skip + limit ELSE Len(seq))

Range(seq) == {seq[i] : i \in DOMAIN seq}

\* a parameter of the query string that can be given once (a string) or
\* several times (an array of strings)
Single(v) == [isArray |-> FALSE, value |-> v, items |-> {}]

Repeated(S) == [isArray |-> TRUE, value |-> "", items |-> S]

\* destructuring default: page = 1, limit = 20 when the parameter is undefined
Default(v, d) == IF v = Absent THEN d ELSE v

\* advancedReportSearch: an array becomes { $in: array }, a string is matched
\* as it is, a missing or empty parameter adds no condition
fieldFilter(p, v) ==
  IF p.isArray THEN v \in p.items
  ELSE IF Truthy(p.value) THEN v = p.value
  ELSE TRUE

\* advancedReportSearch: the query built from req.query
searchQuery(q, r) ==
  /\ fieldFilter(q.status, reports[r].status)
  /\ fieldFilter(q.category, reports[r].category)
  /\ fieldFilter(q.priority, reports[r].priority)

\* getAllUsers: the query built from req.query
usersQuery(q, u) ==
  /\ Truthy(q.role) => users[u].role = q.role
  /\ q.isActive # Undefined => users[u].isActive = (q.isActive = "true")

\* the pages the store can return of the users of S: the date of creation of
\* the accounts, by which they are sorted, is not part of the model
UserPages(S, skip, limit) ==
  LET rest == IF Cardinality(S) > skip THEN Cardinality(S) - skip ELSE 0
      size == IF rest < limit THEN rest ELSE limit
  IN {P \in SUBSET S : Cardinality(P) = size}

\* mutant: the number of pages is rounded down
pagination_Floor(page, limit, total) ==
  [currentPage |-> parseInt(page),
   totalPages  |-> total \div parseInt(limit),
   total       |-> total,
   hasNextPage |-> parseInt(page) < total \div parseInt(limit),
   hasPrevPage |-> parseInt(page) > 1,
   limit       |-> parseInt(limit)]

\* getAllUsers, advancedReportSearch: calculate pagination info
pagination(page, limit, total) ==
  [currentPage |-> parseInt(page),
   totalPages  |-> Ceil(total, parseInt(limit)),
   total       |-> total,
   hasNextPage |-> parseInt(page) < Ceil(total, parseInt(limit)),
   hasPrevPage |-> parseInt(page) > 1,
   limit       |-> parseInt(limit)]

\* a quotient of two integers, which JavaScript and the store compute as a
\* double: kept as numerator and denominator
Quotient(x, y) == [num |-> x, den |-> y]

\* $subtract: ['$updatedAt', '$createdAt'], summed by $avg over the resolved
\* reports of the group.  The clock counts hours.
RECURSIVE SumOfAges(_)
SumOfAges(S) ==
  IF S = {} THEN 0
  ELSE LET r == CHOOSE x \in S : TRUE
       IN (reports[r].updatedAt - reports[r].createdAt) + SumOfAges(S \ {r})

\* advancedReportSearch: the $group stage of the statistics of the result
statistics(S) ==
  LET counts(field) == [v \in {reports[r][field] : r \in S} |->
                          Cardinality({r \in S : reports[r][field] = v})]
      R == {r \in S : reports[r].status = "resolved"}
  IN [totalReports       |-> Cardinality(S),
      statusCounts       |-> counts("status"),
      categoryCounts     |-> counts("category"),
      priorityCounts     |-> counts("priority"),
      avgResolutionHours |-> IF R = {} THEN Quotient(0, 1)
                             ELSE Quotient(SumOfAges(R), Cardinality(R))]

\* the hours of the timeframe of getDashboardAnalytics or of the period of
\* getSystemStatistics (the clock counts hours); 30 days when the handler
\* does not know the value
Hours(op, timeframe) ==
  CASE timeframe = "24h" /\ op = "getSystemStatistics" -> 24
    [] timeframe = "7d" -> 7 * 24
    [] timeframe = "90d" -> 90 * 24
    [] timeframe = "1y" /\ op = "getDashboardAnalytics" -> 365 * 24
    [] OTHER -> 30 * 24

\* $group by a field with count: { $sum: 1 }: the number of reports for each
\* value of the field
countBy(field) ==
  [v \in {reports[r][field] : r \in DOMAIN reports} |->
     Cardinality({r \in DOMAIN reports : reports[r][field] = v})]

\* $match: { status: 'resolved', 'timeline.status': 'resolved' }
resolvedMatch ==
  {r \in DOMAIN reports :
     /\ reports[r].status = "resolved"
     /\ \E i \in DOMAIN reports[r].timeline : reports[r].timeline[i].status = "resolved"}

\* $arrayElemAt: [{ $filter: timeline entries with status resolved }, 0]
firstResolved(r) ==
  LET tl == reports[r].timeline
      i  == CHOOSE k \in DOMAIN tl :
              tl[k].status = "resolved" /\ \A j \in 1..(k - 1) : tl[j].status # "resolved"
  IN tl[i]

\* getSystemStatistics: $subtract of the timestamp of the first resolved
\* entry and createdAt.  The clock counts hours.
resolutionTime(r) == firstResolved(r).timestamp - reports[r].createdAt

RECURSIVE SumOfTimes(_)
SumOfTimes(S) ==
  IF S = {} THEN 0
  ELSE LET r == CHOOSE x \in S : TRUE IN resolutionTime(r) + SumOfTimes(S \ {r})

\* the reports of S whose resolution time is a number: in
\* getDashboardAnalytics the first operand of $subtract is
\* { $arrayElemAt: [...] }.timestamp, a property of an object literal that
\* has none, so the operand is null and the resolution time of every report
\* is null
Timed(op, S) == IF op = "getDashboardAnalytics" THEN {} ELSE S

\* the $group stage over the matched reports: no document when none
\* matched; $avg, $min and $max skip null
performance(op) ==
  LET T == Timed(op, resolvedMatch) IN
    [matched |-> Cardinality(resolvedMatch),
     timed   |-> Cardinality(T),
     sum     |-> SumOfTimes(T),
     min     |-> IF T = {} THEN 0
                 ELSE CHOOSE m \in {resolutionTime(r) : r \in T} :
                        \A r \in T : m <= resolutionTime(r),
     max     |-> IF T = {} THEN 0
                 ELSE CHOOSE m \in {resolutionTime(r) : r \in T} :
                        \A r \in T : m >= resolutionTime(r)]

\* Math.round(x / y) for x >= 0, y >= 1
Round(x, y) == (2 * x + y) \div (2 * y)

\* averageResolutionTime[0] ? Math.round(average / (1000 * 60 * 60)) : 0;
\* an average that is null counts as 0
averageHours(p) == IF p.matched = 0 \/ p.timed = 0 THEN 0 ELSE Round(p.sum, p.timed)

\* the answers the store can give to query name of a request q that actor a
\* sent at the time at
StoreAnswers(op, name, a, q, at) ==
  CASE op = "getReports" /\ name = "find" ->
         LET page  == OrElse(parseInt(q.page), 1)
             limit == OrElse(parseInt(q.limit), 10)
         IN {SkipLimit(f, (page - 1) * limit, limit) :
               f \in NewestFirst({r \in DOMAIN reports : getReportsQuery(a, q, r)})}
    [] op = "getReports" /\ name = "count" ->
         {Cardinality({r \in DOMAIN reports : getReportsQuery(a, q, r)})}
    [] op = "advancedReportSearch" /\ name = "find" ->
         LET page  == parseInt(Default(q.page, <<"1">>))
             limit == parseInt(Default(q.limit, <<"2", "0">>))
         IN {SkipLimit(f, (page - 1) * limit, limit) :
               f \in NewestFirst({r \in DOMAIN reports : searchQuery(q, r)})}
    [] op = "advancedReportSearch" /\ name = "count" ->
         {Cardinality({r \in DOMAIN reports : searchQuery(q, r)})}
    [] op = "advancedReportSearch" /\ name = "aggregate" ->
         {statistics({r \in DOMAIN reports : searchQuery(q, r)})}
    [] op = "getAllUsers" /\ name = "find" ->
         LET page  == parseInt(Default(q.page, <<"1">>))
             limit == parseInt(Default(q.limit, <<"2", "0">>))
         IN UserPages({u \in DOMAIN users : usersQuery(q, u)}, (page - 1) * limit, limit)
    [] op = "getAllUsers" /\ name = "count" ->
         {Cardinality({u \in DOMAIN users : usersQuery(q, u)})}
    [] name = "totalUsers" -> {Cardinality(DOMAIN users)}
    [] name = "totalReports" -> {Cardinality(DOMAIN reports)}
    [] name = "recentReports" ->
         {Cardinality({r \in DOMAIN reports : reports[r].createdAt >= at - Hours(op, q)})}
    [] name = "reportsByStatus" -> {countBy("status")}
    [] name = "reportsByCategory" -> {countBy("category")}
    [] name = "reportsByPriority" -> {countBy("priority")}
    [] name = "averageResolutionTime" -> {performance(op)}
    [] name = "userStats" ->
         {[total  |-> Cardinality(DOMAIN users),
           active |-> Cardinality({u \in DOMAIN users : users[u].isActive})]}
    [] name = "reportStats" ->
         {[total      |-> Cardinality(DOMAIN reports),
           byStatus   |-> countBy("status"),
           byCategory |-> countBy("category"),
           byPriority |-> countBy("priority"),
           recent     |-> Cardinality({r \in DOMAIN reports :
                                         reports[r].createdAt >= at - Hours(op, q)}),
           assigned   |-> Cardinality({r \in DOMAIN reports : reports[r].assignedTo # Null})]}
    [] name = "performanceStats" -> {performance(op)}

\* the store queries of a handler and, for each, the queries awaited before
\* it is issued
StoreQueries(op) ==
  CASE op = "getReports" -> [find |-> {}, count |-> {"find"}]
    [] op = "advancedReportSearch" -> [find |-> {}, count |-> {}, aggregate |-> {}]
    [] op = "getAllUsers" -> [find |-> {}, count |-> {}]
    [] op = "getDashboardAnalytics" ->
         [totalUsers |-> {}, totalReports |-> {}, recentReports |-> {},
          reportsByStatus |-> {}, reportsByCategory |-> {}, reportsByPriority |-> {},
          averageResolutionTime |-> {}]
    [] op = "getSystemStatistics" ->
         [userStats |-> {}, reportStats |-> {}, performanceStats |-> {}]

\* the quotient of a division by zero that is no NaN
Infinity == -2

\* parseFloat((x / y * 100).toFixed(2)) for x >= 0, y >= 0, in hundredths of
\* a percent: 0 / 0 is NaN and x / 0 is Infinity, which toFixed and
\* parseFloat hand on
Percent(x, y) ==
  IF y = 0 THEN IF x = 0 THEN NaN ELSE Infinity
  ELSE Round(x * 100 * 100, y)

\* reportsByStatus.find(s => s._id === id)?.count || 0
countOf(counts, id) == IF id \in DOMAIN counts THEN counts[id] ELSE 0

\* the body of the 200 response, from the answers of the store
QueryData(op, q, result) ==
  CASE op = "getReports" ->
         LET page  == OrElse(parseInt(q.page), 1)
             limit == OrElse(parseInt(q.limit), 10)
         IN [count |-> Len(result.find), total |-> result.count,
             reports |-> result.find,
             pagination |-> [currentPage |-> page,
                             totalPages |-> Ceil(result.count, limit),
                             limit |-> limit]]
    [] op = "advancedReportSearch" ->
         [reports |-> result.find,
          pagination |-> pagination(Default(q.page, <<"1">>), Default(q.limit, <<"2", "0">>),
                                    result.count),
          statistics |-> result.aggregate]
    [] op = "getDashboardAnalytics" ->
         [totalUsers |-> result.totalUsers,
          totalReports |-> result.totalReports,
          recentReports |-> result.recentReports,
          userGrowthRate |-> IF result.totalUsers > 0
                               THEN Percent(result.recentReports, result.totalReports)
                               ELSE 0,
          resolutionRate |-> IF result.totalReports > 0
                               THEN Percent(countOf(result.reportsByStatus, "resolved"),
                                            result.totalReports)
                               ELSE 0,
          averageResolutionHours |-> averageHours(result.averageResolutionTime),
          reportsByStatus |-> result.reportsByStatus,
          reportsByCategory |-> result.reportsByCategory,
          reportsByPriority |-> result.reportsByPriority]
    [] op = "getSystemStatistics" ->
         [users |-> result.userStats,
          reports |-> result.reportStats,
          performance |->
            LET p == result.performanceStats IN
              [averageResolutionHours |-> averageHours(p),
               minResolutionHours |-> IF p.matched = 0 THEN 0 ELSE p.min,
               maxResolutionHours |-> IF p.matched = 0 THEN 0 ELSE p.max,
               totalResolved |-> p.matched]]
    [] op = "getAllUsers" ->
         [users |-> result.find,
          pagination |-> pagination(Default(q.page, <<"1">>), Default(q.limit, <<"2", "0">>),
                                    result.count)]

\* a handler that only reads: its store queries are pending
Pend(op) == Run("query", [pc |-> "query", at |-> now, result |-> <<>>])

GetReports(s, a, q) == Request(s, "getReports", a, Null, q, Pend("getReports"))

\* the routes of the admin controller are behind restrictTo('admin')
AdminQuery(s, op, a, q) ==
  Request(s, op, a, Null, q, IF restrictTo({"admin"}, a) THEN Pend(op) ELSE Reply(403))

AdvancedReportSearch(s, a, q) == AdminQuery(s, "advancedReportSearch", a, q)

GetAllUsers(s, a, q) == AdminQuery(s, "getAllUsers", a, q)

GetDashboardAnalytics(s, a, timeframe) == AdminQuery(s, "getDashboardAnalytics", a, timeframe)

GetSystemStatistics(s, a, period) == AdminQuery(s, "getSystemStatistics", a, period)

\* the store answers one query of the handler in slot s; the response is
\* sent once every query is answered
Query(s, name) ==
  /\ ~Idle(s)
  /\ "query" \in DOMAIN req[s].tasks
  /\ LET t == req[s].tasks["query"]
         todo == StoreQueries(req[s].op)
     IN /\ name \in DOMAIN todo \ DOMAIN t.result
        /\ todo[name] \subseteq DOMAIN t.result
        /\ \E v \in StoreAnswers(req[s].op, name, req[s].actor, req[s].arg, t.at) :
             LET result == (name :> v) @@ t.result IN
               IF DOMAIN result = DOMAIN todo
                 THEN /\ resp' = [op |-> req[s].op, actor |-> req[s].actor,
                                  rid |-> req[s].rid, arg |-> req[s].arg, code |-> 200,
                                  data |-> QueryData(req[s].op, req[s].arg, result)]
                      /\ req' = [req EXCEPT ![s] = IdleReq]
                 ELSE /\ req' = [req EXCEPT ![s].tasks["query"].result = result]
                      /\ UNCHANGED resp
  /\ UNCHANGED <<users, reports, notifications, env, now>>

\* exports.getReportById: a read; 200 carries the report
getReportById(a, r) ==
  IF r \notin DOMAIN reports THEN Reply(404)
  ELSE IF users[a].role = "user" /\ reports[r].submittedBy # a THEN Reply(403)
  ELSE IF users[a].role = "employee"
          /\ reports[r].assignedTo # Null /\ reports[r].assignedTo # a
    THEN Reply(403)
  ELSE Reply(200)

GetReportById(s, a, r) == Request(s, "getReportById", a, r, Null, getReportById(a, r))

----------------------------------------------------------------------------
(* Specifications *)

\* timeline entries stored or about to be pushed, per report
Pending(r) ==
  Cardinality({s \in Slots : /\ r \in DOMAIN req[s].tasks
                             /\ req[s].tasks[r].pc \in {"reload", "saveImages", "save"}})

Capped(n) == \A r \in DOMAIN reports : Len(reports[r].timeline) + Pending(r) <= n

Targets == StatusEnum \cup {Undefined, Bogus}

Bodies == {"valid", "missingField", "badLocation", "badCategory"}

NotifCapped(n) == BagCardinality(notifications) <= n

\* the awaits of a request in flight in slot s
Steps(s) ==
  \/ \E r \in ReportIds : NotifyAdmins(s, r)
  \/ \E r \in ReportIds : Save(s, r)
  \/ \E r \in ReportIds : Notify(s, r)

UserSteps(s) ==
  \/ \E u \in UserIds : SaveUser(s, u)
  \/ \E u \in UserIds : NotifyUser(s, u)

\* Requests served one after the other on one report: the submitter u1, the
\* employees e1 and e2 and the admin a1 call every handler of the report and
\* field-worker controllers.
Next ==
  \/ \E body \in Bodies : CreateReport(1, "u1", "r1", body)
  \/ \E a \in {"u1", "e1", "e2", "a1"}, t \in {"in_progress", "resolved", "closed", Bogus} :
       UpdateReportStatus(1, a, "r1", t) /\ Capped(MaxTimeline)'
  \/ \E a \in {"e1", "a1"}, e \in {"e1", "e2", "u1"} :
       AssignReport(1, a, "r1", e) /\ Capped(MaxTimeline)'
  \/ \E a \in {"u1", "e1"}, n \in {2, 5} :
       AddFeedback(1, a, "r1", n) /\ Capped(MaxTimeline)'
  \/ \E a \in {"u1", "e1", "e2", "a1"}, n \in {0, 1} :
       UploadReportImages(1, a, "r1", n) /\ Capped(MaxTimeline)'
  \/ \E a \in {"u1", "e1", "e2"}, t \in {"in_progress", "resolved", "closed", Bogus} :
       PatchReportStatus(1, a, "r1", t) /\ Capped(MaxTimeline)'
  \/ \E a \in {"u1", "e1", "e2"}, n \in {0, 1}, x \in {"r1", Null} :
       UploadProgressImages(1, a, x, n) /\ Capped(MaxTimeline)'
  \/ \E a \in {"u1", "e1", "e2"}, n \in {0, 1}, m \in {"true", "false"} :
       UploadCompletionImages(1, a, "r1", n, m) /\ Capped(MaxTimeline)'
  \/ Reload(1, "r1")
  \/ Steps(1)

Spec == Init /\ [][Next]_vars

\* Status changes by every role, with every target status, one after the other
NextStatus ==
  \/ \E body \in Bodies : CreateReport(1, "u1", "r1", body)
  \/ \E a \in {"u1", "u2", "e1", "a1"}, t \in Targets :
       UpdateReportStatus(1, a, "r1", t) /\ Capped(MaxTimeline)'
  \/ \E e \in {"e1"} : AssignReport(1, "a1", "r1", e) /\ Capped(MaxTimeline)'
  \/ \E a \in {"e1", "a1"}, t \in Targets :
       PatchReportStatus(1, a, "r1", t) /\ Capped(MaxTimeline)'
  \/ \E ids \in {{}, {"r1"}, {"r2"}, {"r1", Malformed}}, t \in Targets :
       BulkUpdateReportStatus(1, "a1", ids, t, Undefined) /\ Capped(MaxTimeline)'
  \/ Steps(1)

SpecStatus == Init /\ [][NextStatus]_vars

\* Feedback: the submitter u1, another user u2 and the admin a1, who can
\* move the report to resolved again
NextFeedback ==
  \/ CreateReport(1, "u1", "r1", "valid")
  \/ \E a \in {"a1"}, t \in {"in_progress", "resolved"} :
       UpdateReportStatus(1, a, "r1", t) /\ Capped(MaxFeedbackTimeline)'
  \/ \E a \in {"u1", "u2"}, n \in {2, 5} :
       AddFeedback(1, a, "r1", n) /\ Capped(MaxFeedbackTimeline)'
  \/ Steps(1)

SpecFeedback == Init /\ [][NextFeedback]_vars

\* Assignment and user management by the admins
NextAdmin ==
  \/ CreateReport(1, "u1", "r1", "valid")
  \/ \E a \in {"a1", "e1"}, e \in {"e1", "u1"} :
       AssignReport(1, a, "r1", e) /\ Capped(MaxTimeline)'
  \/ \E a \in {"a1", "e1"}, ids \in {{"r1"}, {"r2"}}, e \in {"e1", "e2", "u1"} :
       BulkAssignReports(1, a, ids, e) /\ Capped(MaxTimeline)'
  \/ \E a \in {"a1", "e1"}, u \in {"a1", "e1"}, b \in {"true", "false", "yes"} :
       ToggleUserStatus(1, a, u, b) /\ NotifCapped(MaxNotifications)
  \/ \E a \in {"a1", "e1"}, u \in {"a1", "e1"}, role \in validRoles \cup {Bogus} :
       UpdateUserRole(1, a, u, role) /\ NotifCapped(MaxNotifications)
  \/ Steps(1)
  \/ UserSteps(1)

SpecAdmin == Init /\ [][NextAdmin]_vars

\* Two requests in flight at a time on one report, interleaved at their awaits
NextConc ==
  \E s \in Slots :
    \/ CreateReport(s, "u1", "r1", "valid")
    \/ \E a \in {"u1", "e1", "a1"}, t \in {"in_review", "resolved", "closed"} :
         UpdateReportStatus(s, a, "r1", t) /\ Capped(MaxTimeline)'
    \/ AssignReport(s, "a1", "r1", "e1") /\ Capped(MaxTimeline)'
    \/ AddFeedback(s, "u1", "r1", 5) /\ Capped(MaxTimeline)'
    \/ \E a \in {"u1", "e1"} : UploadReportImages(s, a, "r1", 1) /\ Capped(MaxTimeline)'
    \/ PatchReportStatus(s, "e1", "r1", "resolved") /\ Capped(MaxTimeline)'
    \/ UploadProgressImages(s, "e1", "r1", 1) /\ Capped(MaxTimeline)'
    \/ \E m \in {"true", "false"} :
         UploadCompletionImages(s, "e1", "r1", 1, m) /\ Capped(MaxTimeline)'
    \/ BulkUpdateReportStatus(s, "a1", {"r1"}, "resolved", Undefined) /\ Capped(MaxTimeline)'
    \/ BulkAssignReports(s, "a1", {"r1"}, "e1") /\ Capped(MaxTimeline)'
    \/ BulkDeleteReports(s, "a1", {"r1"}) /\ Capped(MaxTimeline)'
    \/ Reload(s, "r1")
    \/ Steps(s)

SpecConc == Init /\ [][NextConc]_vars

\* an id that is well formed and belongs to no report or user
Ghost == "ghost"

BulkIds == {{}, {"r1"}, {"r1", "r2"}, {"r2", Ghost}, {Ghost}, {"r1", Malformed}}

\* The bulk operations of the admin a1 on the reports r1 of u1 and r2 of u2,
\* one request after the other
NextBulk ==
  \/ CreateReport(1, "u1", "r1", "valid")
  \/ CreateReport(1, "u2", "r2", "valid")
  \/ \E ids \in BulkIds, t \in {"resolved", "closed"}, c \in {Undefined, "", "custom"} :
       BulkUpdateReportStatus(1, "a1", ids, t, c) /\ Capped(MaxBulkTimeline)'
  \/ \E ids \in BulkIds, e \in {"e1", "u1", Ghost, Malformed} :
       BulkAssignReports(1, "a1", ids, e) /\ Capped(MaxBulkTimeline)'
  \/ \E ids \in BulkIds : BulkDeleteReports(1, "a1", ids) /\ Capped(MaxBulkTimeline)'
  \/ Steps(1)

SpecBulk == Init /\ [][NextBulk]_vars

\* Bulk operations on r1 and r2 whose saves and notifications can fail
NextBulkFail ==
  \/ CreateReport(1, "u1", "r1", "valid")
  \/ CreateReport(1, "u2", "r2", "valid")
  \/ \E ids \in {{"r1"}, {"r1", "r2"}} :
       BulkUpdateReportStatus(1, "a1", ids, "resolved", Undefined)
         /\ Capped(MaxBulkTimeline)'
  \/ BulkAssignReports(1, "a1", {"r1", "r2"}, "e1") /\ Capped(MaxBulkTimeline)'
  \/ BulkDeleteReports(1, "a1", {"r1", "r2"}) /\ Capped(MaxBulkTimeline)'
  \/ Steps(1)
  \/ \E r \in ReportIds : Fail(1, r)

SpecBulkFail == Init /\ [][NextBulkFail]_vars

\* accounts created and not yet created by the requests in flight
NewUsers ==
  Cardinality(DOMAIN users \ UserIds)
    + Cardinality({s \in Slots : "new" \in DOMAIN req[s].tasks})

Remote == "203.0.113.7"

Emails == {"u1", "new@x", "other@x"}

Headers == {Undefined, Secret, "wrong"}

\* ADMIN_CREATION_TOKEN is configured or not
InitAccounts ==
  /\ users = InitUsers
  /\ reports = <<>>
  /\ notifications = EmptyBag
  /\ req = [s \in Slots |-> IdleReq]
  /\ resp = NoResp
  /\ env \in {[ADMIN_CREATION_TOKEN |-> Secret], [ADMIN_CREATION_TOKEN |-> Undefined]}
  /\ now = 0

\* Registration, creation of admins and submission of reports, one request
\* after the other
NextAccounts ==
  \/ \E email \in Emails, role \in validRoles \cup {Bogus, Undefined} :
       Register(1, Remote, email, role) /\ NewUsers' <= MaxNewUsers
  \/ \E ip \in {Remote, "127.0.0.1"}, h \in Headers, email \in Emails,
        body \in {"valid", "missingField"} :
       CreateAdmin(1, ip, h, email, body) /\ NewUsers' <= MaxNewUsers
  \/ CreateUser(1)
  \/ \E body \in Bodies, r \in ReportIds : CreateReport(1, "u1", r, body)
  \/ \E r \in ReportIds : NotifyAdmins(1, r)

SpecAccounts == InitAccounts /\ [][NextAccounts]_vars

\* a notification id that belongs to no notification
GhostNotification == NewNotification(Ghost, "system", Null)

\* The inbox: the admin a1 changes the status of the report r1 of u1, which
\* notifies a1 and u1; u1, u2 and a1 mark notifications as read while the
\* clock advances
NextInbox ==
  \/ CreateReport(1, "u1", "r1", "valid")
  \/ \E t \in {"in_progress", "resolved"} :
       UpdateReportStatus(1, "a1", "r1", t) /\ Capped(MaxTimeline)'
  \/ \E a \in {"u1", "u2", "a1"}, n \in BagToSet(notifications) \cup {GhostNotification} :
       PatchNotificationRead(1, a, n)
  \/ SaveNotification(1)
  \/ Steps(1)
  \/ Tick

SpecInbox == Init /\ [][NextInbox]_vars

\* req.query of GET /api/reports
NoFilter ==
  [status |-> Undefined, category |-> Undefined, priority |-> Undefined,
   page |-> Absent, limit |-> Absent]

ReportQueries ==
  {NoFilter,
   [NoFilter EXCEPT !.status = "submitted"],
   [NoFilter EXCEPT !.status = "resolved"],
   [NoFilter EXCEPT !.category = "road_issue"],
   [NoFilter EXCEPT !.priority = "medium"],
   [NoFilter EXCEPT !.status = "in_review", !.category = "other"],
   [NoFilter EXCEPT !.limit = <<"1">>],
   [NoFilter EXCEPT !.page = <<"2">>, !.limit = <<"1">>]}

\* the reports that the queries read: r1 of u1 and r2 of u2, which the admin
\* a1 assigns to e1 or e2 or moves to another status
Writes ==
  \/ \E body \in {"valid", "urgent"} : CreateReport(1, "u1", "r1", body)
  \/ \E body \in {"valid", "urgent"} : CreateReport(1, "u2", "r2", body)
  \/ \E r \in ReportIds, e \in {"e1", "e2"} :
       AssignReport(1, "a1", r, e) /\ Capped(MaxQueryTimeline)'
  \/ \E r \in ReportIds, t \in {"in_review", "resolved"} :
       UpdateReportStatus(1, "a1", r, t) /\ Capped(MaxQueryTimeline)'
  \/ Steps(1)

\* The list of reports as each role sees it
NextList ==
  \/ Writes
  \/ \E a \in {"u1", "e1", "a1"}, q \in ReportQueries : GetReports(1, a, q)
  \/ \E name \in {"find", "count"} : Query(1, name)

SpecList == Init /\ [][NextList]_vars

\* req.query of GET /api/admin/reports/search
NoSearch ==
  [status |-> Single(Undefined), category |-> Single(Undefined),
   priority |-> Single(Undefined), page |-> Absent, limit |-> Absent]

SearchQueries ==
  {NoSearch,
   [NoSearch EXCEPT !.status = Single("submitted")],
   [NoSearch EXCEPT !.status = Single("submitted,in_review")],
   [NoSearch EXCEPT !.status = Repeated({"submitted", "in_review"})],
   [NoSearch EXCEPT !.category = Single("road_issue")],
   [NoSearch EXCEPT !.category = Single("road_issue,other")],
   [NoSearch EXCEPT !.priority = Single("medium,critical")],
   [NoSearch EXCEPT !.priority = Repeated({"medium", "critical"}), !.limit = <<"1">>],
   [NoSearch EXCEPT !.page = <<"2">>, !.limit = <<"1">>],
   [NoSearch EXCEPT !.page = <<"3">>, !.limit = <<"2">>]}

\* req.query of GET /api/admin/users
AllUsers == [role |-> Undefined, isActive |-> Undefined, page |-> Absent, limit |-> Absent]

UserQueries ==
  {AllUsers,
   [AllUsers EXCEPT !.page = <<"3">>, !.limit = <<"2">>],
   [AllUsers EXCEPT !.page = <<"4">>, !.limit = <<"2">>],
   [AllUsers EXCEPT !.role = "user", !.limit = <<"1">>],
   [AllUsers EXCEPT !.role = "user", !.page = <<"2">>, !.limit = <<"1">>],
   [AllUsers EXCEPT !.role = "employee", !.page = <<"1">>, !.limit = <<"2">>],
   [AllUsers EXCEPT !.isActive = "true", !.limit = <<"2", "0">>],
   [AllUsers EXCEPT !.isActive = "false", !.limit = <<"1", "0">>]}

\* the reports that the searches read: r1 of u1 and r2 of u2, which the
\* admin a1 moves to in_review
SearchWrites ==
  \/ \E body \in {"valid", "urgent"} : CreateReport(1, "u1", "r1", body)
  \/ \E body \in {"valid", "urgent"} : CreateReport(1, "u2", "r2", body)
  \/ \E r \in ReportIds : UpdateReportStatus(1, "a1", r, "in_review") /\ Capped(MaxQueryTimeline)'
  \/ Steps(1)

\* The searches of the admin a1 (and of the employee e1, who is refused)
NextSearch ==
  \/ SearchWrites
  \/ \E a \in {"a1", "e1"}, q \in SearchQueries : AdvancedReportSearch(1, a, q)
  \/ \E a \in {"a1", "e1"}, q \in UserQueries : GetAllUsers(1, a, q)
  \/ \E name \in {"find", "count", "aggregate"} : Query(1, name)

SpecSearch == Init /\ [][NextSearch]_vars

\* the reports that the statistics read: r1 of u1, which the admin a1 moves
\* to resolved and to closed, and r2 of u2, which a1 moves to resolved
StatsWrites ==
  \/ CreateReport(1, "u1", "r1", "valid")
  \/ CreateReport(1, "u2", "r2", "valid")
  \/ \E t \in {"resolved", "closed"} :
       UpdateReportStatus(1, "a1", "r1", t) /\ Capped(MaxTimeline)'
  \/ UpdateReportStatus(1, "a1", "r2", "resolved") /\ Capped(MaxQueryTimeline)'
  \/ Steps(1)

\* The statistics of the admin a1 over reports that are resolved, resolved
\* again and closed while the clock advances.  The requests read the clock
\* when they arrive, so the clock advances between the requests.
NextStats ==
  \/ StatsWrites
  \/ Idle(1) /\ Tick
  \/ GetDashboardAnalytics(1, "a1", Undefined)
  \/ GetSystemStatistics(1, "a1", "24h")
  \/ \E name \in DOMAIN StoreQueries("getDashboardAnalytics")
                   \cup DOMAIN StoreQueries("getSystemStatistics") : Query(1, name)

SpecStats == Init /\ [][NextStats]_vars

\* Two requests in flight on one report while the clock advances
NextOrder ==
  \/ \E s \in Slots :
       \/ CreateReport(s, "u1", "r1", "valid")
       \/ \E t \in {"in_review", "resolved"} :
            UpdateReportStatus(s, "a1", "r1", t) /\ Capped(MaxTimeline)'
       \/ AssignReport(s, "a1", "r1", "e1") /\ Capped(MaxTimeline)'
       \/ Steps(s)
  \/ Tick

SpecOrder == Init /\ [][NextOrder]_vars

\* The dashboard of the admin a1 in one slot while reports are created and
\* resolved in the other
NextSnapshot ==
  \/ GetDashboardAnalytics(1, "a1", Undefined)
  \/ \E name \in DOMAIN StoreQueries("getDashboardAnalytics") : Query(1, name)
  \/ CreateReport(2, "u1", "r1", "valid")
  \/ CreateReport(2, "u2", "r2", "urgent")
  \/ UpdateReportStatus(2, "a1", "r1", "resolved") /\ Capped(MaxQueryTimeline)'
  \/ Steps(2)

SpecSnapshot == Init /\ [][NextSnapshot]_vars

\* Status changes, assignment and feedback on one report, any of whose
\* awaits can fail
NextFail ==
  \/ CreateReport(1, "u1", "r1", "valid")
  \/ \E a \in {"a1", "e1"}, t \in {"in_progress", "resolved", Bogus} :
       UpdateReportStatus(1, a, "r1", t) /\ Capped(MaxTimeline)'
  \/ AssignReport(1, "a1", "r1", "e1") /\ Capped(MaxTimeline)'
  \/ \E n \in {2, 5} : AddFeedback(1, "u1", "r1", n) /\ Capped(MaxTimeline)'
  \/ Steps(1)
  \/ Fail(1, "r1")

SpecFail == Init /\ [][NextFail]_vars

\* Two requests in flight that register accounts and create admins with the
\* email of an account (u1) or with a new one
NextRace ==
  \E s \in Slots :
    \/ \E email \in {"u1", "new@x"}, role \in {"user", "employee"} :
         Register(s, Remote, email, role) /\ NewUsers' <= MaxNewUsers
    \/ \E h \in {Secret, "wrong"}, email \in {"u1", "new@x"} :
         CreateAdmin(s, Remote, h, email, "valid") /\ NewUsers' <= MaxNewUsers
    \/ CreateUser(s)

SpecRace == Init /\ [][NextRace]_vars

\* The search of the admin a1, with and without a filter, over reports that
\* are resolved, resolved again and closed while the clock advances
NextSearchStats ==
  \/ CreateReport(1, "u1", "r1", "urgent")
  \/ CreateReport(1, "u2", "r2", "valid")
  \/ \E t \in {"resolved", "closed"} :
       UpdateReportStatus(1, "a1", "r1", t) /\ Capped(MaxTimeline)'
  \/ UpdateReportStatus(1, "a1", "r2", "resolved") /\ Capped(MaxQueryTimeline)'
  \/ Steps(1)
  \/ Idle(1) /\ Tick
  \/ \E q \in {NoSearch, [NoSearch EXCEPT !.category = Single("road_issue")]} :
       AdvancedReportSearch(1, "a1", q)
  \/ \E name \in {"find", "count", "aggregate"} : Query(1, name)

SpecSearchStats == Init /\ [][NextSearchStats]_vars

\* Two requests in flight at a time that activate, deactivate and change the
\* role of the accounts a1 and e1
NextAdminRace ==
  \E s \in Slots :
    \/ \E a \in {"a1", "e1"}, u \in {"a1", "e1"}, b \in {"true", "false"} :
         ToggleUserStatus(s, a, u, b) /\ NotifCapped(MaxNotifications)
    \/ \E a \in {"a1", "e1"}, u \in {"a1", "e1"}, role \in {"admin", "user"} :
         UpdateUserRole(s, a, u, role) /\ NotifCapped(MaxNotifications)
    \/ UserSteps(s)

SpecAdminRace == Init /\ [][NextAdminRace]_vars

\* The requests of user u2 on report r1 of user u1, which the admin a1 moves
\* through its statuses
NextForeign ==
  \/ CreateReport(1, "u1", "r1", "valid")
  \/ \E t \in {"in_progress", "resolved"} :
       UpdateReportStatus(1, "a1", "r1", t) /\ Capped(MaxTimeline)'
  \/ \E t \in {"in_progress", "resolved", "closed"} :
       UpdateReportStatus(1, "u2", "r1", t) /\ Capped(MaxTimeline)'
  \/ \E n \in {2, 5} : AddFeedback(1, "u2", "r1", n) /\ Capped(MaxTimeline)'
  \/ \E n \in {0, 1} : UploadReportImages(1, "u2", "r1", n) /\ Capped(MaxTimeline)'
  \/ Steps(1)

SpecForeign == Init /\ [][NextForeign]_vars

\* Every role reads report r1 of u1 by its id while the admin a1 changes its
\* status and assigns it
NextView ==
  \/ CreateReport(1, "u1", "r1", "valid")
  \/ \E t \in {"in_review", "in_progress", "resolved"} :
       UpdateReportStatus(1, "a1", "r1", t) /\ Capped(MaxTimeline)'
  \/ \E e \in {"e1", "e2"} : AssignReport(1, "a1", "r1", e) /\ Capped(MaxTimeline)'
  \/ \E a \in {"u1", "u2", "e1", "e2", "a1"}, r \in ReportIds : GetReportById(1, a, r)
  \/ Steps(1)

SpecView == Init /\ [][NextView]_vars

\* Image uploads of the submitter u1 and status updates of the admin a1, with
\* and without a target status, two requests in flight at a time
NextUpload ==
  \E s \in Slots :
    \/ CreateReport(s, "u1", "r1", "valid")
    \/ \E t \in {"in_review", Undefined} :
         UpdateReportStatus(s, "a1", "r1", t) /\ Capped(MaxTimeline)'
    \/ UploadReportImages(s, "u1", "r1", 1) /\ Capped(MaxTimeline)'
    \/ Steps(s)

SpecUpload == Init /\ [][NextUpload]_vars

\* Every handler that writes a report, called by the submitter u1, the
\* employee e1 and the admin a1, two requests in flight at a time
NextFrame ==
  \E s \in Slots :
    \/ CreateReport(s, "u1", "r1", "valid")
    \/ \E a \in {"u1", "e1", "a1"}, t \in {"resolved", "closed"} :
         UpdateReportStatus(s, a, "r1", t) /\ Capped(MaxTimeline)'
    \/ \E a \in {"u1", "e1", "a1"} : AssignReport(s, a, "r1", "e1") /\ Capped(MaxTimeline)'
    \/ AddFeedback(s, "u1", "r1", 5) /\ Capped(MaxTimeline)'
    \/ \E a \in {"u1", "e1"} : UploadReportImages(s, a, "r1", 1) /\ Capped(MaxTimeline)'
    \/ PatchReportStatus(s, "e1", "r1", "resolved") /\ Capped(MaxTimeline)'
    \/ UploadProgressImages(s, "e1", "r1", 1) /\ Capped(MaxTimeline)'
    \/ UploadCompletionImages(s, "e1", "r1", 1, "true") /\ Capped(MaxTimeline)'
    \/ BulkUpdateReportStatus(s, "a1", {"r1"}, "resolved", Undefined) /\ Capped(MaxTimeline)'
    \/ \E a \in {"e1", "a1"} : BulkAssignReports(s, a, {"r1"}, "e2") /\ Capped(MaxTimeline)'
    \/ BulkDeleteReports(s, "a1", {"r1"}) /\ Capped(MaxTimeline)'
    \/ Steps(s)

SpecFrame == Init /\ [][NextFrame]_vars

----------------------------------------------------------------------------
(* Properties *)

Last(seq) == seq[Len(seq)]

IsPrefix(p, q) == Len(p) <= Len(q) /\ SubSeq(q, 1, Len(p)) = p

\* C1: in every reachable state the stored status of every report equals the
\* status of the last element of its timeline, under any interleaving of the
\* handlers.
C1_StatusIsLastTimelineStatus ==
  \A r \in DOMAIN reports : reports[r].status = Last(reports[r].timeline).status

\* C2: the timeline of every report is append-only: no step of any handler
\* shortens it, removes, reorders or changes an existing entry.
C2_TimelineAppendOnly ==
  [][\A r \in DOMAIN reports :
       /\ r \in DOMAIN reports'
       /\ IsPrefix(reports[r].timeline, reports'[r].timeline)]_vars

\* a bulk close has just answered, on a report whose timeline grew to three entries
C2_Witness ==
  /\ resp.op = "bulkDeleteReports" /\ resp.code = 200
  /\ "r1" \in DOMAIN reports /\ Len(reports["r1"].timeline) = 3
  /\ reports["r1"].timeline[2].status # "closed"

\* C3: a status change requested by a user is accepted only when the target is
\* closed and the report's current status is resolved; for every other pair the
\* request is answered 403 and the report is unchanged.
C3_UserStatusChange ==
  [][\A a \in {"u1", "u2"}, t \in Targets :
       ( /\ "r1" \in DOMAIN reports
         /\ users[a].role = "user"
         /\ ~(t = "closed" /\ reports["r1"].status = "resolved")
         /\ UpdateReportStatus(1, a, "r1", t) )
       => (resp'.code = 403 /\ req' = req /\ reports' = reports)]_vars

\* a user who is not the submitter asked for closed on a report that is not
\* resolved and was answered 403
C3_Witness ==
  /\ resp.op = "updateReportStatus" /\ resp.actor = "u2" /\ resp.code = 403
  /\ resp.arg = "closed"
  /\ "r1" \in DOMAIN reports /\ reports["r1"].status = "in_progress"

\* the request of this step is answered with code and starts no write
RejectedWith(code) == resp'.code = code /\ req' = req /\ reports' = reports

\* employee a asks for a change of r1, which is assigned to another employee
AssignedToOther(a) ==
  /\ "r1" \in DOMAIN reports
  /\ users[a].role = "employee" /\ users[a].isActive
  /\ reports["r1"].assignedTo \notin {Null, a}

\* C4 as stated: an employee's request for a change of a report assigned to
\* a different employee is answered Forbidden (403) and the report is
\* unchanged, on updateReportStatus, the field-worker status endpoint and the
\* progress and completion uploads.
C4_OtherEmployeeForbidden ==
  [][\A a \in {"e1", "e2"} :
       ( /\ AssignedToOther(a)
         /\ \/ \E t \in Targets : UpdateReportStatus(1, a, "r1", t)
            \/ \E t \in Targets : PatchReportStatus(1, a, "r1", t)
            \/ \E n \in {0, 1} : UploadProgressImages(1, a, "r1", n)
            \/ \E n \in {0, 1}, m \in {"true", "false"} :
                 UploadCompletionImages(1, a, "r1", n, m) )
       => RejectedWith(403)]_vars

\* C4, amended: such a request is always rejected and the report unchanged;
\* the answer is 403, except that the field-worker status endpoint answers
\* 400 for a target other than in_progress and resolved, and the two uploads
\* answer 400 for a request without files.
C4_OtherEmployeeRejected ==
  [][\A a \in {"e1", "e2"} : AssignedToOther(a) =>
       /\ \A t \in Targets :
            UpdateReportStatus(1, a, "r1", t) => RejectedWith(403)
       /\ \A t \in Targets :
            PatchReportStatus(1, a, "r1", t) =>
              RejectedWith(IF t \in {"in_progress", "resolved"} THEN 403 ELSE 400)
       /\ \A n \in {0, 1} :
            UploadProgressImages(1, a, "r1", n) =>
              RejectedWith(IF n = 0 THEN 400 ELSE 403)
       /\ \A n \in {0, 1}, m \in {"true", "false"} :
            UploadCompletionImages(1, a, "r1", n, m) =>
              RejectedWith(IF n = 0 THEN 400 ELSE 403)]_vars

\* the field-worker status endpoint has answered 403 to an employee who asked
\* for resolved on a report assigned to the other employee
C4_Witness ==
  /\ resp.op = "patchReportStatus" /\ resp.code = 403 /\ resp.arg = "resolved"
  /\ resp.actor \in {"e1", "e2"}
  /\ "r1" \in DOMAIN reports
  /\ reports["r1"].assignedTo \in {"e1", "e2"} \ {resp.actor}

\* slot s holds a request of an employee and this step is a step of it
EmployeeStep(s) ==
  /\ ~Idle(s)
  /\ req'[s] # req[s]
  /\ users[req[s].actor].role = "employee"

\* C5: no step of an employee's request changes the status or the timeline
\* of a report whose assignedTo is absent.
C5_UnassignedUntouchedByEmployees ==
  [][\A s \in Slots, r \in DOMAIN reports :
       (EmployeeStep(s) /\ reports[r].assignedTo = Null)
       => /\ reports'[r].status = reports[r].status
          /\ reports'[r].timeline = reports[r].timeline]_vars

\* the timeline entries that this step appends to report r
Appended(r) ==
  SubSeq(reports'[r].timeline, Len(reports[r].timeline) + 1, Len(reports'[r].timeline))

\* an employee's request for a status outside in_progress and resolved is
\* rejected and the report is unchanged
EmployeeTargetsChecked ==
  \A a \in {"e1", "e2"}, t \in Targets \ {"in_progress", "resolved"} :
    ( /\ "r1" \in DOMAIN reports
      /\ users[a].role = "employee"
      /\ UpdateReportStatus(1, a, "r1", t) \/ PatchReportStatus(1, a, "r1", t) )
    => (RejectedWith(400) \/ RejectedWith(403))

\* C6 as stated: an employee can set the status only to in_progress or
\* resolved, and every timeline entry that an employee's request appends
\* carries in_progress or resolved.
C6_EmployeeEntriesInProgressOrResolved ==
  [][/\ EmployeeTargetsChecked
     /\ \A s \in Slots, r \in DOMAIN reports : EmployeeStep(s) =>
          \A i \in DOMAIN Appended(r) :
            Appended(r)[i].status \in {"in_progress", "resolved"}]_vars

\* C6, amended: an employee can set the status only to in_progress or
\* resolved; every timeline entry appended by an employee's status request
\* (updateReportStatus, the field-worker status endpoint, the progress and
\* completion uploads) carries in_progress or resolved, and the entry that an
\* employee's uploadReportImages appends carries the status the report had
\* when the request loaded it.
C6_EmployeeStatusEntries ==
  [][/\ EmployeeTargetsChecked
     /\ \A s \in Slots, r \in DOMAIN reports : EmployeeStep(s) =>
          \A i \in DOMAIN Appended(r) :
            /\ req[s].op = "uploadReportImages"
                 => Appended(r)[i].status = req[s].tasks[r].doc.status
            /\ req[s].op \in {"updateReportStatus", "patchReportStatus",
                               "uploadProgressImages", "uploadCompletionImages"}
                 => Appended(r)[i].status \in {"in_progress", "resolved"}]_vars

\* an employee asked updateReportStatus for closed on their own report and
\* was answered 400
C6_Witness ==
  /\ resp.op = "updateReportStatus" /\ resp.actor = "e1" /\ resp.arg = "closed"
  /\ resp.code = 400
  /\ "r1" \in DOMAIN reports /\ reports["r1"].assignedTo = "e1"

\* C7: once a report has feedback, every later addFeedback on it is rejected
\* and the stored feedback is never overwritten, whatever status changes
\* happen in between.
C7_FeedbackNeverOverwritten ==
  [][\A r \in DOMAIN reports : reports[r].feedback # NoFeedback =>
       /\ reports'[r].feedback = reports[r].feedback
       /\ \A a \in {"u1", "u2"}, n \in {2, 5} :
            AddFeedback(1, a, r, n) => (resp'.code \in {400, 403, 409} /\ req' = req)]_vars

\* C8: in every reachable state, every report whose assignedTo is present
\* references a user whose current role is employee.
C8_AssigneeIsEmployee ==
  \A r \in DOMAIN reports :
    reports[r].assignedTo # Null => users[reports[r].assignedTo].role = "employee"

\* C9: a request for a target status outside the six values of the enum
\* (a missing status included) is answered 400 by updateReportStatus,
\* bulkUpdateReportStatus and the field-worker status endpoint for every role,
\* and it starts no write and no notification.
C9_InvalidTargetRejected ==
  [][\A a \in UserIds, t \in Targets \ StatusEnum :
       ( /\ "r1" \in DOMAIN reports
         /\ \/ UpdateReportStatus(1, a, "r1", t)
            \/ PatchReportStatus(1, a, "r1", t)
            \/ BulkUpdateReportStatus(1, a, {"r1"}, t, Undefined) )
       => (RejectedWith(400) /\ notifications' = notifications)]_vars

\* C10: toggleUserStatus with isActive = false by an admin on their own
\* account is answered 400; the account stays active, no save is started and
\* no notification is created.
C10_NoSelfDeactivation ==
  [][\A a \in UserIds :
       ( /\ users[a].role = "admin" /\ users[a].isActive
         /\ ToggleUserStatus(1, a, a, "false") )
       => /\ resp'.code = 400
          /\ users' = users /\ users'[a].isActive
          /\ req' = req
          /\ notifications' = notifications]_vars

\* an admin who used to be an employee asked to deactivate their own account
\* and was answered 400
C10_Witness ==
  /\ resp.op = "toggleUserStatus" /\ resp.arg = "false" /\ resp.code = 400
  /\ resp.actor = "e1" /\ resp.rid = "e1"
  /\ users["e1"].role = "admin" /\ users["e1"].isActive

\* C11: every user has one role out of user, employee and admin in every
\* state; updateUserRole by an admin on another user with a valid role sets
\* that role and answers 200; on the admin's own account, or with a role
\* outside the three values, it answers 400 and changes no role.
C11_RoleChangedByAdminOnly ==
  [][/\ \A u \in DOMAIN users : users[u].role \in validRoles
     /\ \A u \in DOMAIN users' : users'[u].role \in validRoles
     /\ \A a \in {"a1", "e1"}, u \in {"a1", "e1"}, role \in validRoles \cup {Bogus} :
          ( /\ users[a].role = "admin" /\ users[a].isActive
            /\ UpdateUserRole(1, a, u, role) )
          => IF u = a \/ role \notin validRoles
               THEN resp'.code = 400 /\ users' = users /\ req' = req
               ELSE /\ req'[1].op = "updateUserRole"
                    /\ req'[1].tasks[u].pc = "saveUser"
                    /\ req'[1].tasks[u].doc.role = role
     /\ \A u \in DOMAIN users :
          (req[1].op = "updateUserRole" /\ SaveUser(1, u))
          => /\ users'[u].role = req[1].arg
             /\ \A o \in DOMAIN users \ {u} : users'[o] = users[o]
     /\ \A u \in DOMAIN users :
          (req[1].op = "updateUserRole" /\ NotifyUser(1, u)) => resp'.code = 200]_vars

\* the admin a1 has made the employee e1 an admin and was answered 200
C11_Witness ==
  /\ resp.op = "updateUserRole" /\ resp.code = 200
  /\ resp.actor = "a1" /\ resp.rid = "e1" /\ resp.arg = "admin"
  /\ users["e1"].role = "admin"

\* the account that the request just answered has created
Created == {u \in DOMAIN users \ UserIds : users[u].email = resp.rid}

\* C12: register never creates an admin: whatever role the request asks for,
\* the account is created with role employee when the request asked for
\* employee, and with role user otherwise.
C12_RegisterNeverAdmin ==
  [][(req[1].op = "register" /\ CreateUser(1)) =>
       \A u \in DOMAIN users' \ DOMAIN users :
         users'[u].role = IF req[1].arg = "employee" THEN "employee" ELSE "user"]_vars

\* a registration that asked for role admin was answered 201 and the new
\* account has role user
C12_Witness ==
  /\ resp.op = "register" /\ resp.code = 201 /\ resp.arg = "admin"
  /\ Created # {}
  /\ \A u \in Created : users[u].role = "user"

\* C13: a createAdmin request that comes from no localhost address and has
\* no admin-creation-token header equal to a configured ADMIN_CREATION_TOKEN
\* is answered 403 and creates no user, whether the token is configured or
\* not and whatever the header is, an absent header included.
C13_UntrustedCreateAdminRejected ==
  [][\A h \in Headers, email \in Emails, body \in {"valid", "missingField"} :
       ( /\ ~(h # Undefined /\ env.ADMIN_CREATION_TOKEN # Undefined
                /\ h = env.ADMIN_CREATION_TOKEN)
         /\ CreateAdmin(1, Remote, h, email, body) )
       => (resp'.code = 403 /\ req' = req /\ users' = users)]_vars

BulkEntry(status, comment, a) ==
  [status |-> status,
   comment |-> IF comment \in {Undefined, ""} THEN "Bulk status update" ELSE comment,
   updatedBy |-> a, timestamp |-> now]

\* C15: a bulk status update with well-formed ids works on the reports that
\* exist among them; when none exists it answers 404 and changes nothing;
\* otherwise every found report gets exactly one new timeline entry with the
\* target status, the comment or the default comment and the caller as actor,
\* and the response's updatedCount and reportIds are those of the found set.
C15_BulkUpdateFoundSet ==
  [][/\ \A ids \in {i \in BulkIds : i # {} /\ Malformed \notin i},
          t \in StatusEnum, c \in {Undefined, "", "custom"} :
          ( /\ users["a1"].role = "admin" /\ users["a1"].isActive
            /\ BulkUpdateReportStatus(1, "a1", ids, t, c) )
          => LET found == ids \cap DOMAIN reports IN
               IF found = {}
                 THEN RejectedWith(404) /\ notifications' = notifications
                 ELSE /\ DOMAIN req'[1].tasks = found
                      /\ \A r \in found :
                           req'[1].tasks[r].pushT = <<BulkEntry(t, c, "a1")>>
     /\ \A r \in DOMAIN reports :
          (req[1].op = "bulkUpdateReportStatus" /\ Save(1, r))
          => /\ Appended(r) = req[1].tasks[r].pushT
             /\ Len(reports'[r].timeline) = Len(reports[r].timeline) + 1
             /\ \A o \in DOMAIN reports \ {r} : reports'[o] = reports[o]
     /\ (req[1].op = "bulkUpdateReportStatus" /\ resp' # resp /\ resp'.code = 200)
          => LET found == req[1].rid \cap DOMAIN reports IN
               /\ resp'.data = [count |-> Cardinality(found), reportIds |-> found]
               /\ \A r \in found :
                    /\ Last(reports'[r].timeline).status = req[1].arg
                    /\ Last(reports'[r].timeline).updatedBy = req[1].actor]_vars

\* a bulk update of r2 and of an id of no report has resolved r2 and answered
\* with a count of one
C15_Witness ==
  /\ resp.op = "bulkUpdateReportStatus" /\ resp.code = 200
  /\ resp.rid = {"r2", Ghost}
  /\ resp.data = [count |-> 1, reportIds |-> {"r2"}]
  /\ Last(reports["r2"].timeline) =
       [status |-> "resolved", comment |-> "custom", updatedBy |-> "a1",
        timestamp |-> now]

\* C16: bulkAssignReports to an existing user whose role is not employee is
\* answered 400 before any report is loaded: no report changes and no
\* notification is created.
C16_BulkAssignToNonEmployeeRejected ==
  [][\A ids \in BulkIds, e \in DOMAIN users :
       ( /\ users["a1"].role = "admin" /\ users["a1"].isActive
         /\ users[e].role # "employee"
         /\ BulkAssignReports(1, "a1", ids, e) )
       => (RejectedWith(400) /\ notifications' = notifications)]_vars

\* a bulk assignment of the existing reports r1 and r2 to the user u1 was
\* answered 400
C16_Witness ==
  /\ resp.op = "bulkAssignReports" /\ resp.code = 400
  /\ resp.rid = {"r1", "r2"} /\ resp.arg = "u1"
  /\ {"r1", "r2"} \subseteq DOMAIN reports
  /\ users["u1"].role = "user"

\* the task of report r in slot 1 has finished with this step
TaskDone(r) == req'[1].op = "none" \/ req'[1].tasks[r].pc = "done"

\* the notification that a bulk operation in slot 1 owes for report r
BulkNotification(r) ==
  IF req[1].op = "bulkAssignReports"
    THEN NewNotification(req[1].arg, "assignment", r)
    ELSE NewNotification(reports[r].submittedBy, "report_status", r)

\* the save of report r by a bulk operation creates nothing itself; the
\* operation goes on to create a notification exactly when owed holds
BulkSaveThenNotify(r, owed) ==
  (req[1].op \in BulkOps /\ Save(1, r))
  => /\ notifications' = notifications
     /\ IF owed THEN req'[1].op = req[1].op /\ req'[1].tasks[r].pc = "notify"
                ELSE TaskDone(r)

\* the creation of the notification adds one notification and ends the task
BulkNotifyOnce(r) ==
  (req[1].op \in BulkOps /\ Notify(1, r))
  => /\ notifications' = notifications (+) SetToBag({BulkNotification(r)})
     /\ TaskDone(r)

\* C17 as stated: for each report that a bulk operation moves to resolved or
\* to closed exactly one notification to the submitter is created, and for
\* each report that bulkAssignReports assigns exactly one notification to the
\* new assignee.
C17_BulkNotifiesResolvedAndClosed ==
  [][\A r \in DOMAIN reports :
       /\ BulkSaveThenNotify(r, \/ req[1].op \in {"bulkAssignReports", "bulkDeleteReports"}
                                \/ req[1].arg \in {"resolved", "closed"})
       /\ BulkNotifyOnce(r)]_vars

\* C17, amended: exactly one notification to the submitter is created for
\* each report that bulkUpdateReportStatus moves to resolved and for each
\* report that bulkDeleteReports closes, and exactly one to the new assignee
\* for each report that bulkAssignReports assigns; bulkUpdateReportStatus to
\* any other status, closed included, creates no notification.
C17_BulkNotifications ==
  [][\A r \in DOMAIN reports :
       /\ BulkSaveThenNotify(r, \/ req[1].op \in {"bulkAssignReports", "bulkDeleteReports"}
                                \/ req[1].arg = "resolved")
       /\ BulkNotifyOnce(r)]_vars

\* a bulk close of r1 and r2 has answered 200 and each submitter has one
\* notification about their report
C17_Witness ==
  /\ resp.op = "bulkDeleteReports" /\ resp.code = 200
  /\ resp.rid = {"r1", "r2"}
  /\ CopiesIn(NewNotification("u1", "report_status", "r1"), notifications) = 1
  /\ CopiesIn(NewNotification("u2", "report_status", "r2"), notifications) = 1

\* the reports that the bulk operation in slot 1 has changed up to and
\* with this step
ChangedByBulk ==
  {r \in DOMAIN req[1].tasks : req[1].tasks[r].pushT = <<>> \/ reports'[r] # reports[r]}

\* C18: in a bulk operation the failure of one report's transition or
\* notification rolls back no transition of another report, and the answer of
\* the operation carries the count and the ids of the reports that it has
\* changed.
C18_BulkPartialFailureReported ==
  [][/\ \A r \in DOMAIN reports :
          (req[1].op \in BulkOps /\ Fail(1, r)) => reports' = reports
     /\ (req[1].op \in BulkOps /\ resp' # resp)
          => /\ resp'.data.reportIds = ChangedByBulk
             /\ resp'.data.count = Cardinality(ChangedByBulk)]_vars

\* the entry points that change the status of one report
StatusOps == {"updateReportStatus", "patchReportStatus", "uploadProgressImages",
              "uploadCompletionImages"}

\* the save of addTimelineEvent of a status request on report r succeeds: it
\* appends one entry and creates nothing itself; the request goes on to
\* create a notification exactly when owed holds
StatusSaveThenNotify(r, owed) ==
  ( /\ req[1].op \in StatusOps
    /\ r \in DOMAIN req[1].tasks /\ req[1].tasks[r].pc = "save"
    /\ Save(1, r) /\ reports'[r] # reports[r] )
  => /\ Len(Appended(r)) = 1
     /\ notifications' = notifications
     /\ IF owed THEN req'[1].op = req[1].op /\ req'[1].tasks[r].pc = "notify"
                ELSE TaskDone(r)

\* the creation of the notification of a status request that named a status
\* adds one report_status notification to the submitter and ends the request
StatusNotifyOnce(r) ==
  (req[1].op \in StatusOps /\ ~NotificationThrows(req[1]) /\ Notify(1, r))
  => /\ notifications' = notifications (+)
          SetToBag({NewNotification(reports[r].submittedBy, "report_status", r)})
     /\ resp'.code = SuccessCode(req[1].op)

\* C19 as stated: every successful status transition creates a notification
\* that describes it, whichever entry point performs it.
C19_EveryTransitionNotifies ==
  [][\A r \in DOMAIN reports :
       /\ StatusSaveThenNotify(r, TRUE)
       /\ StatusNotifyOnce(r)]_vars

\* C19, amended: a successful transition by updateReportStatus to a status
\* named in the request creates one report_status notification to the
\* submitter; the field-worker status
\* endpoint and the completion upload create one only when they set the
\* status to resolved, and the progress upload creates none.  When the
\* assigned employee sets the status to resolved the timeline gains one entry
\* and the submitter gets exactly one report_status notification.
C19_TransitionNotifications ==
  [][\A r \in DOMAIN reports :
       /\ StatusSaveThenNotify(r, \/ req[1].op = "updateReportStatus"
                                  \/ req[1].op = "patchReportStatus" /\ req[1].arg = "resolved"
                                  \/ req[1].op = "uploadCompletionImages" /\ req[1].arg = "true")
       /\ StatusNotifyOnce(r)]_vars

\* the employee e1 has resolved the report assigned to them through the
\* field-worker status endpoint and the submitter has one notification
C19_Witness ==
  /\ resp.op = "patchReportStatus" /\ resp.arg = "resolved" /\ resp.code = 200
  /\ resp.actor = "e1"
  /\ "r1" \in DOMAIN reports /\ reports["r1"].assignedTo = "e1"
  /\ Last(reports["r1"].timeline).status = "resolved"
  /\ Last(reports["r1"].timeline).updatedBy = "e1"
  /\ CopiesIn(NewNotification("u1", "report_status", "r1"), notifications) = 1

\* the notifications about report r that this step creates for user u
NewFor(u, r) ==
  CopiesIn(NewNotification(u, "report_status", r), notifications')
    - CopiesIn(NewNotification(u, "report_status", r), notifications)

\* C20: a valid createReport stores a report with status submitted, the
\* caller as submitter, no assignee and a timeline of the one entry
\* (submitted, caller), and then creates one notification for each admin; a
\* request without title, description or category, or with coordinates that
\* are no array of two elements, creates no report and no notification.
C20_CreateReport ==
  [][/\ \A r \in ReportIds, body \in Bodies :
          CreateReport(1, "u1", r, body) =>
            /\ notifications' = notifications
            /\ IF body = "valid"
                 THEN /\ DOMAIN reports' = DOMAIN reports \cup {r}
                      /\ reports'[r].status = "submitted"
                      /\ reports'[r].submittedBy = "u1"
                      /\ reports'[r].assignedTo = Null
                      /\ Len(reports'[r].timeline) = 1
                      /\ reports'[r].timeline[1].status = "submitted"
                      /\ reports'[r].timeline[1].updatedBy = "u1"
                      /\ req'[1].tasks[r].pc = "notifyAdmins"
                 ELSE resp'.code = 400 /\ reports' = reports /\ req' = req
     /\ \A r \in ReportIds :
          NotifyAdmins(1, r) =>
            /\ \A u \in DOMAIN users : NewFor(u, r) = IF users[u].role = "admin" THEN 1 ELSE 0
            /\ BagCardinality(notifications') = BagCardinality(notifications)
                 + Cardinality({u \in DOMAIN users : users[u].role = "admin"})
            /\ resp'.code = 201
            /\ reports' = reports]_vars

\* a report was submitted while a second admin existed, and both admins have
\* one notification about it
C20_Witness ==
  /\ resp.op = "createReport" /\ resp.code = 201 /\ resp.rid = "r1"
  /\ reports["r1"].status = "submitted"
  /\ \E n \in DOMAIN users \ UserIds :
       /\ users[n].role = "admin"
       /\ CopiesIn(NewNotification(n, "report_status", "r1"), notifications) = 1
  /\ CopiesIn(NewNotification("a1", "report_status", "r1"), notifications) = 1

\* in every reachable state a notification that is read has a date of reading
ReadHasReadAt == \A n \in BagToSet(notifications) : n.isRead => n.readAt # NoDate

\* C21: once isRead is true readAt is set, and a later mark-as-read request
\* on the same notification is a no-op that leaves isRead and readAt as they
\* were.
C21_MarkAsReadIdempotent ==
  [][/\ ReadHasReadAt'
     /\ SaveNotification(1) =>
          (req[1].tasks["notification"].orig.isRead => notifications' = notifications)]_vars

\* the visibility scope of an account: every report for an admin; for an
\* employee the reports assigned to them and the unassigned reports that are
\* submitted or in review; for a user the reports they submitted
Scope(a) ==
  CASE users[a].role = "admin" -> DOMAIN reports
    [] users[a].role = "employee" ->
         {r \in DOMAIN reports : reports[r].assignedTo = a}
           \cup {r \in DOMAIN reports : /\ reports[r].assignedTo = Null
                                        /\ reports[r].status \in {"submitted", "in_review"}}
    [] OTHER -> {r \in DOMAIN reports : reports[r].submittedBy = a}

\* the reports that have the status, category and priority a query names
Filtered(q) ==
  {r \in DOMAIN reports :
     /\ q.status # Undefined => reports[r].status = q.status
     /\ q.category # Undefined => reports[r].category = q.category
     /\ q.priority # Undefined => reports[r].priority = q.priority}

Listed(v) ==
  CASE v = "submitted,in_review" -> {"submitted", "in_review"}
    [] v = "road_issue,other" -> {"road_issue", "other"}
    [] v = "medium,critical" -> {"medium", "critical"}
    [] OTHER -> {v}

\* the field is any of the values the parameter names; a parameter that is
\* left out names none
IsAnyOf(p, v) ==
  IF p.isArray THEN v \in p.items
  ELSE p.value # Undefined => v \in Listed(p.value)

\* the reports a search has to select
Selected(q) ==
  {r \in DOMAIN reports : /\ IsAnyOf(q.status, reports[r].status)
                          /\ IsAnyOf(q.category, reports[r].category)
                          /\ IsAnyOf(q.priority, reports[r].priority)}

\* C23: advancedReportSearch selects exactly the reports whose status,
\* category and priority are any of the values listed by the parameter (one
\* value or a comma-list); a parameter left out imposes no constraint.
C23_CommaListIsAnyOf ==
  [][(req[1].op = "advancedReportSearch" /\ Idle(1)') =>
       /\ resp'.data.pagination.total = Cardinality(Selected(resp'.arg))
       /\ Range(resp'.data.reports) \subseteq Selected(resp'.arg)]_vars

\* the documents a getAllUsers or advancedReportSearch request counts
Counted(op, q) ==
  IF op = "getAllUsers"
    THEN Cardinality({u \in DOMAIN users : usersQuery(q, u)})
    ELSE Cardinality({r \in DOMAIN reports : searchQuery(q, r)})

\* C24: for a total >= 0, a limit >= 1 and a page >= 1, getAllUsers and
\* advancedReportSearch return currentPage = page, totalPages = the ceiling
\* of total / limit, the total, hasNextPage exactly when page < totalPages and
\* hasPrevPage exactly when page > 1.
C24_Pagination ==
  [][(req[1].op \in {"getAllUsers", "advancedReportSearch"} /\ Idle(1)') =>
       LET q     == resp'.arg
           p     == resp'.data.pagination
           page  == parseInt(Default(q.page, <<"1">>))
           limit == parseInt(Default(q.limit, <<"2", "0">>))
           total == Counted(resp'.op, q)
       IN /\ resp'.code = 200
          /\ p.currentPage = page
          /\ p.total = total
          /\ p.totalPages * limit >= total
          /\ (p.totalPages - 1) * limit < total
          /\ p.hasNextPage <=> page < p.totalPages
          /\ p.hasPrevPage <=> page > 1]_vars

\* the third and last page of the five accounts, two on a page, was returned
C24_Witness ==
  /\ resp.op = "getAllUsers"
  /\ resp.code = 200
  /\ resp.data.pagination.total = 5
  /\ resp.data.pagination.limit = 2
  /\ resp.data.pagination.totalPages = 3
  /\ resp.data.pagination.currentPage = 3
  /\ resp.data.pagination.hasPrevPage
  /\ ~resp.data.pagination.hasNextPage
  /\ Cardinality(resp.data.users) = 1

\* the reports that have at least one resolved timeline entry
EverResolved ==
  {r \in DOMAIN reports :
     \E i \in DOMAIN reports[r].timeline : reports[r].timeline[i].status = "resolved"}

\* the hours from the creation of a report to its first resolved entry
HoursToResolve(r) ==
  LET tl    == reports[r].timeline
      first == CHOOSE i \in DOMAIN tl :
                 /\ tl[i].status = "resolved"
                 /\ \A j \in DOMAIN tl : tl[j].status = "resolved" => i <= j
  IN tl[first].timestamp - reports[r].createdAt

RECURSIVE TotalHours(_)
TotalHours(S) ==
  IF S = {} THEN 0
  ELSE LET r == CHOOSE x \in S : TRUE IN HoursToResolve(r) + TotalHours(S \ {r})

\* the average resolution hours that a response carries
AverageOf(response) ==
  IF response.op = "getDashboardAnalytics"
    THEN response.data.averageResolutionHours
    ELSE response.data.performance.averageResolutionHours

\* C25: the average resolution hours of getDashboardAnalytics and of
\* getSystemStatistics are the mean, over every report that has a resolved
\* timeline entry, of the hours from createdAt to the first resolved entry,
\* whatever entries follow it; a report without a resolved entry contributes
\* nothing.
C25_AverageResolutionHours ==
  [][(req[1].op \in {"getDashboardAnalytics", "getSystemStatistics"} /\ Idle(1)') =>
       AverageOf(resp') = IF EverResolved = {} THEN 0
                          ELSE Round(TotalHours(EverResolved), Cardinality(EverResolved))]_vars

\* C26: when two transition requests on one report have both loaded it before
\* either saves, each save appends its timeline entry to the timeline as it
\* is stored at that moment, so both entries are stored once both requests
\* are done, and the stored status is the one that was written last.
C26_ConcurrentAppendsKept ==
  [][\A s \in Slots, r \in ReportIds :
       (Save(s, r) /\ Validates(req[s].tasks[r])) =>
         LET t == req[s].tasks[r] IN
           /\ reports'[r].timeline = reports[r].timeline \o t.pushT
           /\ reports'[r].status = IF "status" \in t.mod THEN t.doc.status
                                                        ELSE reports[r].status]_vars

\* two requests loaded r1 while it was unassigned; the assignment has been
\* saved, then the status update, and both entries are stored
C26_Witness ==
  /\ "r1" \in DOMAIN reports
  /\ Len(reports["r1"].timeline) = 3
  /\ reports["r1"].timeline[2].status = "assigned"
  /\ reports["r1"].timeline[3].status = "in_review"
  /\ reports["r1"].status = "in_review"
  /\ reports["r1"].assignedTo = "e1"
  /\ \E s \in Slots :
       /\ req[s].op = "updateReportStatus"
       /\ "r1" \in DOMAIN req[s].tasks
       /\ req[s].tasks["r1"].pc = "notify"
       /\ req[s].tasks["r1"].doc.assignedTo = Null

\* the entries of the timeline carry ascending timestamps
Ascending(timeline) ==
  \A i, j \in 1..Len(timeline) :
    i < j => timeline[i].timestamp <= timeline[j].timestamp

\* C27: in every reachable state the timeline of every report is ordered by
\* timestamp ascending, also when the transitions on the report are issued
\* concurrently.
C27_TimelineAscending ==
  \A r \in DOMAIN reports : Ascending(reports[r].timeline)

\* every save of a report appends the saving request's entries after the
\* entries stored before it: appends appear in the order of their persistence
AppendsInSaveOrder ==
  [][\A s \in Slots, r \in ReportIds :
       (Save(s, r) /\ Validates(req[s].tasks[r])) =>
         /\ Len(reports'[r].timeline) = Len(reports[r].timeline) + Len(req[s].tasks[r].pushT)
         /\ \A i \in 1..Len(reports[r].timeline) :
              reports'[r].timeline[i] = reports[r].timeline[i]]_vars


\* the sum of the counts of a $group result
RECURSIVE Total(_)
Total(counts) ==
  IF DOMAIN counts = {} THEN 0
  ELSE LET v == CHOOSE x \in DOMAIN counts : TRUE
       IN counts[v] + Total([x \in DOMAIN counts \ {v} |-> counts[x]])

\* the figures of one dashboard response agree with one another
Snapshot(data) ==
  /\ Total(data.reportsByStatus) = data.totalReports
  /\ Total(data.reportsByCategory) = data.totalReports
  /\ Total(data.reportsByPriority) = data.totalReports
  /\ data.recentReports <= data.totalReports

\* C28: the figures of one getDashboardAnalytics response form a
\* point-in-time snapshot: the counts by status, by category and by priority
\* each add up to totalReports and recentReports is at most totalReports,
\* also when reports are created or changed while its queries are in flight.
C28_DashboardSnapshot ==
  [][(req[1].op = "getDashboardAnalytics" /\ Idle(1)' /\ resp'.code = 200)
       => Snapshot(resp'.data)]_vars

TransitionOps == {"updateReportStatus", "assignReport", "addFeedback"}

\* the request on report r ends with an error at the await named pc
EndsInErrorAt(r, pc) ==
  /\ req[1].op \in TransitionOps
  /\ r \in DOMAIN req[1].tasks
  /\ req[1].tasks[r].pc = pc
  /\ Idle(1)'
  /\ resp'.code # 200

\* C29: when the creation of the notification fails after addTimelineEvent
\* has persisted in updateReportStatus, assignReport or addFeedback, the
\* caller gets an error, the status and the timeline entry of the request
\* stay stored and the request is over (no rollback, no retry); when the
\* save of addTimelineEvent fails, the stored report is as it was before the
\* request, and no notification is created in either case.
C29_FailureLeavesAppliedState ==
  [][\A r \in ReportIds :
       /\ EndsInErrorAt(r, "notify") =>
            LET tl == reports'[r].timeline IN
              /\ resp'.code = InternalErrorCode
              /\ reports' = reports
              /\ reports'[r].status = req[1].tasks[r].doc.status
              /\ tl[Len(tl)].status = req[1].tasks[r].doc.status
              /\ tl[Len(tl)].updatedBy = req[1].actor
              /\ notifications' = notifications
       /\ EndsInErrorAt(r, "save") =>
            /\ resp'.code \in {InternalErrorCode, ValidationErrorCode}
            /\ reports' = reports
            /\ notifications' = notifications]_vars

\* the report was resolved and its submitter was never notified (the
\* notification failed), and then the save of a change to in_progress failed
C29_Witness ==
  /\ Idle(1)
  /\ "r1" \in DOMAIN reports
  /\ reports["r1"].status = "resolved"
  /\ \A n \in BagToSet(notifications) : n.recipient # "u1"
  /\ resp.op = "updateReportStatus"
  /\ resp.arg = "in_progress"
  /\ resp.actor = "a1"
  /\ resp.code = InternalErrorCode

EmailUnique ==
  \A u, v \in DOMAIN users : users[u].email = users[v].email => u = v

\* a request for an email in use is answered with an error and creates no user
Rejected(s) ==
  /\ resp'.code >= 400
  /\ users' = users
  /\ Idle(s)'

StatisticsOfFilteredSet ==
  [][(req[1].op = "advancedReportSearch" /\ Idle(1)' /\ resp'.code = 200) =>
       LET M == Selected(resp'.arg)
           st == resp'.data.statistics
       IN /\ st.totalReports = Cardinality(M)
          /\ Total(st.statusCounts) = Cardinality(M)
          /\ Total(st.categoryCounts) = Cardinality(M)
          /\ Total(st.priorityCounts) = Cardinality(M)]_vars

\* C31: avgResolutionHours of advancedReportSearch is the average, over the
\* reports that match the filter and have a resolved timeline entry, of the
\* hours from createdAt to the first resolved entry, and 0 when there is none.
C31_SearchAverageResolution ==
  [][(req[1].op = "advancedReportSearch" /\ Idle(1)' /\ resp'.code = 200) =>
       LET M == Selected(resp'.arg) \cap EverResolved
           a == resp'.data.statistics.avgResolutionHours
       IN IF M = {} THEN a.num = 0
          ELSE a.num * Cardinality(M) = TotalHours(M) * a.den]_vars

\* what the code computes: the average of updatedAt - createdAt over the
\* matching reports whose status is resolved
SearchAverageIsAgeOfResolved ==
  [][(req[1].op = "advancedReportSearch" /\ Idle(1)' /\ resp'.code = 200) =>
       LET M == {r \in Selected(resp'.arg) : reports[r].status = "resolved"}
           a == resp'.data.statistics.avgResolutionHours
       IN IF M = {} THEN a.num = 0
          ELSE a.num * Cardinality(M) = SumOfAges(M) * a.den]_vars

\* C32: for the admin there is no transition table: from every current
\* status and for every target t of the six statuses (t equal to the current
\* status, a skipped state and a target that leaves closed included)
\* updateReportStatus is accepted, its save appends one timeline entry with
\* status t and stores status t, and the request is answered 200.
C32_AdminAnyTransition ==
  [][/\ \A t \in StatusEnum :
          (UpdateReportStatus(1, "a1", "r1", t) /\ "r1" \in DOMAIN reports) =>
            /\ ~Idle(1)'
            /\ Len(req'[1].tasks["r1"].pushT) = 1
            /\ req'[1].tasks["r1"].pushT[1].status = t
            /\ req'[1].tasks["r1"].pushT[1].updatedBy = "a1"
     /\ (/\ req[1].op = "updateReportStatus"
         /\ req[1].actor = "a1"
         /\ req[1].arg \in StatusEnum) =>
            /\ Save(1, "r1") =>
                 /\ reports'["r1"].status = req[1].arg
                 /\ reports'["r1"].timeline =
                      reports["r1"].timeline \o req[1].tasks["r1"].pushT
            /\ Idle(1)' => resp'.code = 200]_vars

\* the admin has moved the report from submitted to closed and from closed
\* back to submitted
C32_Witness ==
  /\ "r1" \in DOMAIN reports
  /\ Idle(1)
  /\ resp.op = "updateReportStatus"
  /\ resp.code = 200
  /\ reports["r1"].status = "submitted"
  /\ Len(reports["r1"].timeline) = 3
  /\ reports["r1"].timeline[2].status = "closed"
  /\ reports["r1"].timeline[3].status = "submitted"
  /\ reports["r1"].timeline[3].updatedBy = "a1"

ActiveAdmins == {u \in DOMAIN users : users[u].role = "admin" /\ users[u].isActive}

\* C33: after any sequence and any interleaving of toggleUserStatus and
\* updateUserRole requests of authenticated admins at least one active user
\* with role admin exists (one exists initially).
C33_ActiveAdminRemains == ActiveAdmins # {}

\* a has role user and report r was submitted by somebody else
ForeignUser(a, r) ==
  /\ users[a].role = "user"
  /\ r \in DOMAIN reports
  /\ reports[r].submittedBy # a

\* the request that arrives is answered with an error and changes no report
Refused == resp'.code >= 400 /\ req' = req /\ reports' = reports

\* addFeedback and uploadReportImages of a user on a report of another user
\* are answered 403 and change nothing
ForeignFeedbackAndImagesRefused ==
  [][/\ \A n \in {2, 5} :
          (AddFeedback(1, "u2", "r1", n) /\ ForeignUser("u2", "r1"))
            => (Refused /\ resp'.code = 403)
     /\ \A n \in {0, 1} :
          (UploadReportImages(1, "u2", "r1", n) /\ ForeignUser("u2", "r1"))
            => (Refused /\ resp'.code = 403)]_vars

\* C34: every updateReportStatus, addFeedback or uploadReportImages request
\* of a user on a report that another user submitted is rejected and leaves
\* the report's status, timeline, feedback and images unchanged.
C34_ForeignReportUntouched ==
  [][/\ \A t \in {"in_progress", "resolved", "closed"} :
          (UpdateReportStatus(1, "u2", "r1", t) /\ ForeignUser("u2", "r1")) => Refused
     /\ \A n \in {2, 5} :
          (AddFeedback(1, "u2", "r1", n) /\ ForeignUser("u2", "r1")) => Refused
     /\ \A n \in {0, 1} :
          (UploadReportImages(1, "u2", "r1", n) /\ ForeignUser("u2", "r1")) => Refused
     /\ (~Idle(1) /\ req[1].op \in {"updateReportStatus", "addFeedback", "uploadReportImages"}
           /\ ForeignUser(req[1].actor, req[1].rid)) => reports' = reports]_vars

\* getReportById answers an employee 200 exactly for the reports that are
\* unassigned or assigned to that employee
EmployeeViewsUnassignedOrOwn ==
  [][\A a \in {"e1", "e2"}, r \in ReportIds :
       (GetReportById(1, a, r) /\ r \in DOMAIN reports) =>
         (resp'.code = 200 <=> reports[r].assignedTo \in {Null, a})]_vars

\* C35: every report that getReportById returns to an employee is in the
\* getReports visibility scope of that employee: assigned to them, or
\* unassigned with status submitted or in_review.
C35_SingleAndListAgree ==
  [][\A a \in {"e1", "e2"}, r \in ReportIds :
       (GetReportById(1, a, r) /\ resp'.code = 200) => r \in Scope(a)]_vars

\* C36: the saves of uploadReportImages leave the stored status as it is:
\* the first appends the images, the second appends one timeline entry that
\* carries the status of the loaded report, also when another request's
\* transition on the report was persisted after this handler's load.
C36_UploadKeepsStatus ==
  [][\A s \in Slots, r \in ReportIds :
       (req[s].op = "uploadReportImages" /\ Save(s, r)) =>
         LET t == req[s].tasks[r] IN
           /\ reports'[r].status = reports[r].status
           /\ t.pc = "saveImages" =>
                /\ reports'[r].images = reports[r].images + t.pushI
                /\ reports'[r].timeline = reports[r].timeline
           /\ t.pc = "save" =>
                /\ reports'[r].images = reports[r].images
                /\ Len(reports'[r].timeline) = Len(reports[r].timeline) + 1
                /\ Last(reports'[r].timeline).status = t.doc.status
                /\ Last(reports'[r].timeline).updatedBy = req[s].actor]_vars

\* an upload loaded the report as submitted, a status update to in_review
\* was persisted, and the upload's entry was appended after it
UploadAfterTransition ==
  /\ "r1" \in DOMAIN reports
  /\ reports["r1"].status = "in_review"
  /\ reports["r1"].images = 1
  /\ Len(reports["r1"].timeline) = 3
  /\ reports["r1"].timeline[2].status = "in_review"
  /\ reports["r1"].timeline[3].status = "submitted"
  /\ reports["r1"].timeline[3].comment = "image(s) uploaded"

AssignOps == {"assignReport", "bulkAssignReports"}

\* C37: the assignedTo of a report changes only in the save of an
\* assignReport or bulkAssignReports request of an admin; the saves of every
\* other request leave it as it is stored, and assignReport or
\* bulkAssignReports of a caller who is no admin is answered 403 and changes
\* nothing.
C37_AssignedToChangesByAssignOnly ==
  [][/\ \A r \in DOMAIN reports :
          reports'[r].assignedTo # reports[r].assignedTo =>
            \E s \in Slots : /\ req[s].op \in AssignOps
                             /\ users[req[s].actor].role = "admin"
                             /\ Save(s, r)
                             /\ reports'[r].assignedTo = req[s].arg
     /\ \A s \in Slots, a \in {"u1", "e1"} :
          (AssignReport(s, a, "r1", "e1") \/ BulkAssignReports(s, a, {"r1"}, "e2"))
            => (resp'.code = 403 /\ req' = req /\ reports' = reports)]_vars

\* the employee e1 loaded the unassigned report, the admin assigned it to e2
\* with bulkAssignReports, and the save of e1's status update left the assignee
C37_Witness ==
  /\ "r1" \in DOMAIN reports
  /\ reports["r1"].assignedTo = "e2"
  /\ Len(reports["r1"].timeline) = 3
  /\ reports["r1"].timeline[2].comment = "Assigned to"
  /\ reports["r1"].timeline[3].status = "resolved"
  /\ reports["r1"].timeline[3].updatedBy = "e1"

\* the resolution rate of the dashboard is 0 without reports and the share
\* of the resolved reports otherwise; the user growth rate is the share of
\* the recent reports when there are reports (hundredths of a percent)
RatesWithReports ==
  [][(req[1].op = "getDashboardAnalytics" /\ Idle(1)' /\ resp'.code = 200) =>
       LET d == resp'.data
           resolved == Cardinality({r \in DOMAIN reports : reports[r].status = "resolved"})
       IN /\ d.totalReports = 0 => d.resolutionRate = 0
          /\ d.totalReports > 0 =>
               /\ d.resolutionRate = Round(resolved * 10000, d.totalReports)
               /\ d.userGrowthRate = Round(d.recentReports * 10000, d.totalReports)
               /\ d.resolutionRate \in 0..10000
               /\ d.userGrowthRate \in 0..10000]_vars

\* C38: getDashboardAnalytics never divides by zero: when totalReports is 0
\* userGrowthRate and resolutionRate are 0, and otherwise they are
\* recentReports / totalReports x 100 and resolved / totalReports x 100,
\* each within 0 and 100 (in hundredths of a percent).
C38_DashboardRates ==
  [][(req[1].op = "getDashboardAnalytics" /\ Idle(1)' /\ resp'.code = 200) =>
       LET d == resp'.data
           resolved == Cardinality({r \in DOMAIN reports : reports[r].status = "resolved"})
       IN IF d.totalReports = 0
            THEN d.userGrowthRate = 0 /\ d.resolutionRate = 0
            ELSE /\ d.userGrowthRate = Round(d.recentReports * 10000, d.totalReports)
                 /\ d.resolutionRate = Round(resolved * 10000, d.totalReports)
                 /\ d.userGrowthRate \in 0..10000
                 /\ d.resolutionRate \in 0..10000]_vars

====
